---- MODULE Spec2Model ----
(***************************************************************************)
(* Calendrical core of the zhouyi site: solar terms, the four pillars      *)
(* (bazi) and the luck-pillar onset, as computed by js/bazi.js and by the  *)
(* later revisions of the same module.                                     *)
(*                                                                         *)
(* Conventions                                                             *)
(*  - stems, branches and solar terms are represented by their index in    *)
(*    STEMS, BRANCHES and termNames (0-based, as in the source);           *)
(*  - JavaScript arrays are functions over 0..n-1;                         *)
(*  - floating point expressions are modelled by exact integer arithmetic  *)
(*    on scaled values (1/10000 day, minutes, tenths of a year);           *)
(*  - a local constant of the source that is read several times is bound   *)
(*    as  Only({ e : x \in {v} }),  which is  LET x == v IN e  with v      *)
(*    evaluated once.                                                      *)
(***************************************************************************)
EXTENDS Integers, Sequences, FiniteSets, TLC

\* ---------------------------------------------------------------------
\* JavaScript arithmetic helpers
\* ---------------------------------------------------------------------

\* JavaScript % : remainder with the sign of the dividend
JsRem(a, n) == IF a >= 0 THEN a % n ELSE 0 - ((0 - a) % n)

\* ((a % n) + n) % n, the normalisation idiom of the source
JsMod(a, n) == JsRem(JsRem(a, n) + n, n)

\* a 0-based array from a tuple literal
Arr(t) == [i \in 0..(Len(t) - 1) |-> t[i + 1]]

\* the element of a singleton set
Only(S) == CHOOSE x \in S : TRUE

Min2(a, b) == IF a < b THEN a ELSE b
Max2(a, b) == IF a > b THEN a ELSE b

\* ---------------------------------------------------------------------
\* Supported input range (calcBazi: year < 1900 || year > 2100 rejected)
\* ---------------------------------------------------------------------
MinYear == 1900
MaxYear == 2100

isLeap(y) == (y % 4 = 0 /\ y % 100 # 0) \/ (y % 400 = 0)

monthDays(y) == Arr(<<31, IF isLeap(y) THEN 29 ELSE 28, 31, 30, 31, 30,
                      31, 31, 30, 31, 30, 31>>)

\* ---------------------------------------------------------------------
\* getSolarTerms (linear / empirical table calibrated to 2000)
\* ---------------------------------------------------------------------

\* base[termIndex] of getDaysFromNewYear
base == Arr(<<
  [month |-> 1,  day |-> 5,  hour |-> 15, minute |-> 0],
  [month |-> 1,  day |-> 20, hour |-> 9,  minute |-> 0],
  [month |-> 2,  day |-> 4,  hour |-> 3,  minute |-> 14],
  [month |-> 2,  day |-> 19, hour |-> 0,  minute |-> 29],
  [month |-> 3,  day |-> 5,  hour |-> 23, minute |-> 29],
  [month |-> 3,  day |-> 20, hour |-> 23, minute |-> 34],
  [month |-> 4,  day |-> 4,  hour |-> 19, minute |-> 42],
  [month |-> 4,  day |-> 20, hour |-> 2,  minute |-> 20],
  [month |-> 5,  day |-> 5,  hour |-> 15, minute |-> 32],
  [month |-> 5,  day |-> 21, hour |-> 3,  minute |-> 43],
  [month |-> 6,  day |-> 5,  hour |-> 12, minute |-> 32],
  [month |-> 6,  day |-> 21, hour |-> 7,  minute |-> 0],
  [month |-> 7,  day |-> 7,  hour |-> 5,  minute |-> 5],
  [month |-> 7,  day |-> 22, hour |-> 22, minute |-> 30],
  [month |-> 8,  day |-> 7,  hour |-> 15, minute |-> 39],
  [month |-> 8,  day |-> 23, hour |-> 4,  minute |-> 34],
  [month |-> 9,  day |-> 7,  hour |-> 12, minute |-> 8],
  [month |-> 9,  day |-> 23, hour |-> 3,  minute |-> 55],
  [month |-> 10, day |-> 8,  hour |-> 9,  minute |-> 21],
  [month |-> 10, day |-> 23, hour |-> 4,  minute |-> 15],
  [month |-> 11, day |-> 7,  hour |-> 2,  minute |-> 20],
  [month |-> 11, day |-> 22, hour |-> 4,  minute |-> 36],
  [month |-> 12, day |-> 7,  hour |-> 1,  minute |-> 10],
  [month |-> 12, day |-> 22, hour |-> 0,  minute |-> 28] >>)

\* termOffsets, in 1/100 day (5.59 -> 559)
termOffsets == Arr(<<
  559, 2012, 387, 1983, 563, 2065,
  560, 2088, 639, 2137, 596, 2195,
  793, 2314, 750, 2304, 869, 2342,
  864, 2396, 786, 2260, 718, 2194 >>)

\* dayOffset in 1/10000 day:
\*   y2000 * 0.2422 + y2000 * 0.0002 + termOffsets[termIndex]
dayOffset(y, termIndex) ==
  LET y2000 == y - 2000
      yearCorrection == y2000 * 2
  IN  y2000 * 2422 + yearCorrection + termOffsets[termIndex] * 100

\* the "while (day > monthDays[month - 1])" loop; wrapped records whether
\* the loop executed "month = 1" (the carry went past December)
RECURSIVE carryMonths(_, _, _, _)
carryMonths(y, day, month, wrapped) ==
  IF day > monthDays(y)[month - 1]
  THEN LET d2 == day - monthDays(y)[month - 1]
           m2 == month + 1
       IN  IF m2 > 12 THEN carryMonths(y, d2, 1, TRUE)
                      ELSE carryMonths(y, d2, m2, wrapped)
  ELSE [day |-> day, month |-> month, wrapped |-> wrapped]

\* Math.floor(termData.day + dayOffset) followed by the carry loop
carryOf(y, termIndex) ==
  Only({ carryMonths(y, day, base[termIndex].month, FALSE) :
           day \in {(base[termIndex].day * 10000 + dayOffset(y, termIndex))
                      \div 10000} })

getDaysFromNewYear(y, termIndex) ==
  Only({ [month |-> c.month, day |-> c.day,
          hour |-> base[termIndex].hour, minute |-> base[termIndex].minute] :
           c \in {carryOf(y, termIndex)} })

\* termNames (the 24 solar terms, from xiaohan to dongzhi)
termNames == Arr(<<
  "xiaohan", "dahan", "lichun", "yushui", "jingzhe", "chunfen",
  "qingming", "guyu", "lixia", "xiaoman", "mangzhong", "xiazhi",
  "xiaoshu", "dashu", "liqiu", "chushu", "bailu", "qiufen",
  "hanlu", "shuangjiang", "lidong", "xiaoxue", "daxue", "dongzhi" >>)

TermNameSet == {termNames[i] : i \in 0..23}

\* the index of a term name in termNames
termIndexOf == [
  xiaohan |-> 0, dahan |-> 1, lichun |-> 2, yushui |-> 3, jingzhe |-> 4,
  chunfen |-> 5, qingming |-> 6, guyu |-> 7, lixia |-> 8, xiaoman |-> 9,
  mangzhong |-> 10, xiazhi |-> 11, xiaoshu |-> 12, dashu |-> 13, liqiu |-> 14,
  chushu |-> 15, bailu |-> 16, qiufen |-> 17, hanlu |-> 18,
  shuangjiang |-> 19, lidong |-> 20, xiaoxue |-> 21, daxue |-> 22,
  dongzhi |-> 23 ]

\* the object returned by getSolarTerms: result[termNames[i]], i = 0..23
getSolarTerms(year) ==
  [name \in TermNameSet |->
     Only({ IF t.month > 12
            THEN [month |-> t.month - 12, day |-> t.day, hour |-> t.hour,
                  minute |-> t.minute, year |-> year + 1]
            ELSE [month |-> t.month, day |-> t.day, hour |-> t.hour,
                  minute |-> t.minute, year |-> year] :
              t \in {getDaysFromNewYear(year, termIndexOf[name])} })]

\* ---------------------------------------------------------------------
\* getNearestSolarTerm
\* ---------------------------------------------------------------------

\* JavaScript null for a term record
NoDate == [month |-> 0, day |-> 0, hour |-> 0, minute |-> 0, year |-> 0]

\* td.year * 10000 + td.month * 100 + td.day
tdNum(td) ==
  Only({ t.year * 10000 + t.month * 100 + t.day : t \in {td} })

\* the loop over this year's terms: the index of the first term after
\* dateNum, where the loop breaks (24: no term of the year is later)
RECURSIVE firstLaterTerm(_, _, _)
firstLaterTerm(terms, dateNum, i) ==
  IF i = 24 THEN 24
  ELSE IF tdNum(terms[termNames[i]]) > dateNum THEN i
  ELSE firstLaterTerm(terms, dateNum, i + 1)

\* lastTerms = ['daxue', 'dongzhi'] of the previous year: the last of them
\* that is not after dateNum
lastTermOfPrevYear(prevYearTerms, dateNum) ==
  IF tdNum(prevYearTerms["dongzhi"]) <= dateNum THEN "dongzhi"
  ELSE IF tdNum(prevYearTerms["daxue"]) <= dateNum THEN "daxue"
  ELSE "null"

getNearestSolarTerm(year, month, day) ==
  Only({
    LET terms == getSolarTerms(year)
        prevYearTerms == getSolarTerms(year - 1)
    IN  [prevTerm |-> IF stop > 0 THEN termNames[stop - 1] ELSE p,
         prevDate |-> IF stop > 0 THEN terms[termNames[stop - 1]]
                      ELSE IF p = "null" THEN NoDate ELSE prevYearTerms[p],
         \* without a later term this year: xiaohan of the next year
         nextTerm |-> IF stop < 24 THEN termNames[stop] ELSE "xiaohan",
         nextDate |-> IF stop < 24 THEN terms[termNames[stop]]
                      ELSE getSolarTerms(year + 1)["xiaohan"]] :
      stop \in {firstLaterTerm(getSolarTerms(year),
                               year * 10000 + month * 100 + day, 0)},
      p \in {lastTermOfPrevYear(getSolarTerms(year - 1),
                                year * 10000 + month * 100 + day)} })

\* ---------------------------------------------------------------------
\* Constant tables
\* ---------------------------------------------------------------------
\* STEMS and BRANCHES are represented by their indices 0..9 and 0..11
STEM_ELEMENTS == Arr(<<"wood", "wood", "fire", "fire", "earth", "earth",
                       "metal", "metal", "water", "water">>)
BRANCH_ELEMENTS == Arr(<<"water", "earth", "wood", "wood", "earth", "fire",
                         "fire", "earth", "metal", "metal", "earth", "water">>)
STEM_YIN_YANG == Arr(<<"yang", "yin", "yang", "yin", "yang", "yin",
                       "yang", "yin", "yang", "yin">>)

\* ['yin','mao','chen','si','wu','wei','shen','you','xu','hai','zi','chou'],
\* each branch character given by its index in BRANCHES
monthBranchNames == Arr(<<2, 3, 4, 5, 6, 7, 8, 9, 10, 11, 0, 1>>)

\* ---------------------------------------------------------------------
\* getMonthFromSolarTerm
\* ---------------------------------------------------------------------

\* TERM_MONTH_INDEX (0: the first month, 11: the twelfth); no function
\* reads the table
TERM_MONTH_INDEX == [
  lichun |-> 0, yushui |-> 0, jingzhe |-> 1, chunfen |-> 1,
  qingming |-> 2, guyu |-> 2, lixia |-> 3, xiaoman |-> 3,
  mangzhong |-> 4, xiazhi |-> 4, xiaoshu |-> 5, dashu |-> 5,
  liqiu |-> 6, chushu |-> 6, bailu |-> 7, qiufen |-> 7,
  hanlu |-> 8, shuangjiang |-> 8, lidong |-> 9, xiaoxue |-> 9,
  daxue |-> 10, dongzhi |-> 10, xiaohan |-> 11, dahan |-> 11 ]

\* the if / else-if chain on prevTerm
monthIndexOf(prevTerm, month) ==
  CASE prevTerm = "lichun"    -> 0
    [] prevTerm = "jingzhe"   -> 1
    [] prevTerm = "qingming"  -> 2
    [] prevTerm = "lixia"     -> 3
    [] prevTerm = "mangzhong" -> 4
    [] prevTerm = "xiaoshu"   -> 5
    [] prevTerm = "liqiu"     -> 6
    [] prevTerm = "bailu"     -> 7
    [] prevTerm = "hanlu"     -> 8
    [] prevTerm = "lidong"    -> 9
    [] prevTerm = "daxue"     -> 10
    [] prevTerm = "xiaohan"   -> 11
    [] prevTerm = "yushui" \/ prevTerm = "chunfen" -> 0
    [] prevTerm = "guyu"        -> 1
    [] prevTerm = "xiaoman"     -> 3
    [] prevTerm = "xiazhi"      -> 4
    [] prevTerm = "dashu"       -> 5
    [] prevTerm = "chushu"      -> 6
    [] prevTerm = "qiufen"      -> 7
    [] prevTerm = "shuangjiang" -> 8
    [] prevTerm = "xiaoxue"     -> 9
    [] prevTerm = "dongzhi"     -> 10
    [] prevTerm = "dahan"       -> 11
    [] OTHER -> (month - 1) \div 2

\* monthStemBase = [2, 4, 6, 8, 0, 2, 4, 6, 8, 0][yearStemIdx]
monthStemBase == Arr(<<2, 4, 6, 8, 0, 2, 4, 6, 8, 0>>)

\* js/bazi.js: monthBranchIdx = (monthIndex + 2) % 12 indexes monthBranchNames
getMonthFromSolarTerm(year, month, day, hour, minute) ==
  Only({
    LET monthIndex == monthIndexOf(prevTerm, month)
        yearStemIdx == JsMod(year - 4, 10)
        monthStemIdx == JsRem(monthStemBase[yearStemIdx] + monthIndex, 10)
        monthBranchIdx == JsRem(monthIndex + 2, 12)
    IN  [monthStem |-> monthStemIdx,
         monthBranch |-> monthBranchNames[monthBranchIdx],
         monthStemIdx |-> monthStemIdx,
         monthBranchIdx |-> monthBranchIdx,
         termName |-> IF prevTerm = "null" THEN "weizhi" ELSE prevTerm] :
      prevTerm \in {getNearestSolarTerm(year, month, day).prevTerm} })

\* later revision: monthBranchIdx = monthIndex indexes the same name list
getMonthFromSolarTermV2(year, month, day, hour, minute) ==
  Only({
    LET monthIndex == monthIndexOf(prevTerm, month)
        yearStemIdx == JsMod(year - 4, 10)
        monthStemIdx == JsRem(monthStemBase[yearStemIdx] + monthIndex, 10)
        monthBranchIdx == monthIndex
    IN  [monthStem |-> monthStemIdx,
         monthBranch |-> monthBranchNames[monthBranchIdx],
         monthStemIdx |-> monthStemIdx,
         monthBranchIdx |-> monthBranchIdx,
         termName |-> IF prevTerm = "null" THEN "weizhi" ELSE prevTerm] :
      prevTerm \in {getNearestSolarTerm(year, month, day).prevTerm} })

\* ---------------------------------------------------------------------
\* getYearFromSolarTerm
\* ---------------------------------------------------------------------
getYearFromSolarTerm(year, month, day) ==
  Only({
    LET birthDate == year * 10000 + month * 100 + day
        lichunDate == lichun.year * 10000 + lichun.month * 100 + lichun.day
        actualYear == IF birthDate < lichunDate THEN year - 1 ELSE year
        yearStemIdx == JsMod(actualYear - 4, 10)
        yearBranchIdx == JsMod(actualYear - 4, 12)
    IN  [yearStem |-> yearStemIdx, yearBranch |-> yearBranchIdx,
         yearStemIdx |-> yearStemIdx, yearBranchIdx |-> yearBranchIdx,
         actualYear |-> actualYear] :
      lichun \in {getSolarTerms(year)["lichun"]} })

\* ---------------------------------------------------------------------
\* new Date(y, m - 1, d, h, min): the time value in minutes (a time zone
\* with a fixed offset; the day may lie outside the month, as Date allows)
\* ---------------------------------------------------------------------
DayFromYear(y) ==
  365 * (y - 1970) + ((y - 1969) \div 4) - ((y - 1901) \div 100)
    + ((y - 1601) \div 400)

RECURSIVE daysBeforeMonth(_, _)
daysBeforeMonth(y, m) ==
  IF m <= 1 THEN 0 ELSE daysBeforeMonth(y, m - 1) + monthDays(y)[m - 2]

\* (a month index outside 0..11 carries into the year)
DateMinutes(y, m, d, h, mi) ==
  (DayFromYear(y + ((m - 1) \div 12))
     + daysBeforeMonth(y + ((m - 1) \div 12), ((m - 1) % 12) + 1) + d - 1) * 1440
    + h * 60 + mi

\* ---------------------------------------------------------------------
\* calcDaYunPrecise
\* ---------------------------------------------------------------------

\* Math.round(days / 3 * 10) for a span given in minutes
\* (days / 3 * 10 = minutes / 432, Math.round(x) = floor(x + 1/2)).
\* In double arithmetic the quotient of an exact half k + 1/2 can fall just
\* below the half; the tenth that is lost shows in the floored age for one
\* span only, 12744 minutes (8.85 / 3 * 10 evaluates to 29.499999999999996).
roundTenthsOfAge(minutes) ==
  IF minutes = 12744 THEN 29 ELSE (2 * minutes + 432) \div 864

\* Math.round(days) for a span given in minutes
roundDays(minutes) == (2 * minutes + 1440) \div 2880

\* a faulty variant of daYunIsForward: the stem's polarity alone decides
daYunIsForward_StemOnly(gender, yearStemIdx) == JsRem(yearStemIdx, 2) = 0

\* (isYangYear && isMale) || (!isYangYear && !isMale)
daYunIsForward(gender, yearStemIdx) ==
  LET isYangYear == JsRem(yearStemIdx, 2) = 0
      isMale == gender = "m"
  IN  (isYangYear /\ isMale) \/ (~isYangYear /\ ~isMale)

\* a faulty variant of clampStartAge: the upper bound is not applied
clampStartAge_NoUpper(tenths) == IF tenths < 10 THEN 10 ELSE tenths

\* if (startAge < 1) startAge = 1; if (startAge > 20) startAge = 20;
\* on the age in tenths of a year
clampStartAge(tenths) ==
  LET a == IF tenths < 10 THEN 10 ELSE tenths
  IN  IF a > 200 THEN 200 ELSE a

calcDaYunPrecise(year, month, day, hour, minute, gender, yearStemIdx) ==
  Only({
  LET prevDate == near.prevDate
      nextDate == near.nextDate
      birthDate == DateMinutes(year, month, day, hour, minute)
      nextDateTime == DateMinutes(nextDate.year, nextDate.month, nextDate.day,
                                  nextDate.hour, nextDate.minute)
      toNext0 == nextDateTime - birthDate
      daysToNext == IF toNext0 < 0 THEN toNext0 + 365 * 1440 ELSE toNext0
      prevDateTime == DateMinutes(prevDate.year, prevDate.month, prevDate.day,
                                  prevDate.hour, prevDate.minute)
      fromPrev0 == birthDate - prevDateTime
      daysFromPrev == IF fromPrev0 < 0 THEN fromPrev0 + 365 * 1440 ELSE fromPrev0
      forward == daYunIsForward(gender, yearStemIdx)
      startAge == IF forward THEN roundTenthsOfAge(daysToNext)
                             ELSE roundTenthsOfAge(daysFromPrev)
  IN  IF prevDate = NoDate \/ nextDate = NoDate
      THEN [startAge |-> 3, direction |-> "shunxing",
            daysToNext |-> 0, daysFromPrev |-> 0,
            prevTerm |-> near.prevTerm, nextTerm |-> near.nextTerm]
      ELSE [startAge |-> clampStartAge(startAge) \div 10,
            direction |-> IF forward THEN "shunxing" ELSE "nixing",
            daysToNext |-> roundDays(daysToNext),
            daysFromPrev |-> roundDays(daysFromPrev),
            prevTerm |-> near.prevTerm, nextTerm |-> near.nextTerm] :
    near \in {getNearestSolarTerm(year, month, day)} })

\* ---------------------------------------------------------------------
\* Day and hour pillars
\* ---------------------------------------------------------------------

\* js/bazi.js getJulianDay, without the trailing "- 1524.5":
\*   floor(365.25 * (year + 4716)) + floor(30.6001 * (month + 1)) + day + B
julianSum(year, month, day) ==
  LET y == IF month <= 2 THEN year - 1 ELSE year
      m == IF month <= 2 THEN month + 12 ELSE month
      A == y \div 100
      B == 2 - A + (A \div 4)
  IN  ((1461 * (y + 4716)) \div 4) + ((306001 * (m + 1)) \div 10000) + day + B

\* Math.floor(getJulianDay(year, month, day)) of js/bazi.js:
\* the sum is an integer, so floor(sum - 1524.5) = sum - 1525
floorJulianDay(year, month, day) == julianSum(year, month, day) - 1525

\* getJulianDay of the later revision (integer Julian day number)
getJulianDayV2(year, month, day) ==
  LET a == (14 - month) \div 12
      y2 == year + 4800 - a
      m2 == month + 12 * a - 3
  IN  day + ((153 * m2 + 2) \div 5) + 365 * y2 + (y2 \div 4) - (y2 \div 100)
        + (y2 \div 400) - 32045

\* dayStemIdx = ((jd + 49) % 10 + 10) % 10, dayBranchIdx = ((jd + 1) % 12 + 12) % 12
dayPillarOf(jd) ==
  [stemIdx |-> JsMod(jd + 49, 10), branchIdx |-> JsMod(jd + 1, 12)]

\* a faulty variant of getDayStemBranch: the remainders are not normalised
getDayStemBranch_Rem(year, month, day) ==
  [stemIdx |-> JsRem(julianSum(year, month, day) - 1524 - 2451551, 10),
   branchIdx |-> JsRem(julianSum(year, month, day) - 1524 - 2451551, 12)]

\* getDayStemBranch, base = 2451551 (2000-01-07)
getDayStemBranch(year, month, day) ==
  LET JD == julianSum(year, month, day) - 1524
      jdBase == 2451551
  IN  [stemIdx |-> JsMod(JD - jdBase, 10), branchIdx |-> JsMod(JD - jdBase, 12)]

\* hourStemBases = [0, 2, 4, 6, 8]
hourStemBases == Arr(<<0, 2, 4, 6, 8>>)

\* a faulty variant of getHourStemBranch: the base is dayStemIdx % 5 itself
getHourStemBranch_PlainBase(dayStemIdx, hourBranchIdx) ==
  [stemIdx |-> JsRem(JsRem(dayStemIdx, 5) + hourBranchIdx, 10),
   branchIdx |-> hourBranchIdx]

\* getHourStemBranch, and the same lines inside calcBaziPillars
getHourStemBranch(dayStemIdx, hourBranchIdx) ==
  [stemIdx |-> JsRem(hourStemBases[JsRem(dayStemIdx, 5)] + hourBranchIdx, 10),
   branchIdx |-> hourBranchIdx]

\* ---------------------------------------------------------------------
\* calcSolarTerm (Newton iteration on the solar longitude, Meeus ch. 27)
\* ---------------------------------------------------------------------
\* The iteration uses double arithmetic and Math.sin; its results for the
\* sectional terms (termIndex 0, 2, ..., 22) of the years 1899..2101 are
\* tabulated here, one row per year, each entry
\*   month * 1000000 + day * 10000 + hour * 100 + minute   (Beijing time),
\* the year of every entry being the year of its row.
solarTermTable == <<
  <<1052016, 2040805, 3060236, 4050806, 5060209, 6060652, 7071722, 8080259, 9080522, 10082017, 11072245, 12071504>>,
  <<1060206, 2041355, 3060825, 4051356, 5060758, 6061241, 7072310, 8080848, 9081111, 10090206, 11080435, 12072055>>,
  <<1060756, 2041945, 3061415, 4051945, 5061347, 6061830, 7080459, 8081437, 9081701, 10090757, 11081025, 12080246>>,
  <<1061347, 2050136, 3062006, 4060136, 5061937, 6070020, 7081049, 8082027, 9082251, 10091347, 11081616, 12080837>>,
  <<1061939, 2050727, 3070157, 4060727, 5070128, 6070610, 7081639, 8090217, 9090441, 10091938, 11082208, 12081429>>,
  <<1070131, 2051319, 3060749, 4051318, 5060719, 6061201, 7072230, 8080808, 9081032, 10090129, 11080359, 12072020>>,
  <<1060723, 2041911, 3061340, 4051909, 5061309, 6061751, 7080420, 8081358, 9081623, 10090720, 11080951, 12080212>>,
  <<1061314, 2050102, 3061931, 4060100, 5061900, 6062341, 7081010, 8081948, 9082213, 10091311, 11081541, 12080803>>,
  <<1061905, 2050653, 3070122, 4060650, 5070049, 6070530, 7081559, 8090137, 9090402, 10091901, 11082132, 12081353>>,
  <<1070056, 2051244, 3060712, 4051239, 5060638, 6061119, 7072147, 8080726, 9080951, 10090050, 11080321, 12071943>>,
  <<1060646, 2041833, 3061301, 4051828, 5061227, 6061707, 7080335, 8081313, 9081539, 10090638, 11080910, 12080132>>,
  <<1061235, 2050022, 3061850, 4060016, 5061814, 6062254, 7080922, 8081900, 9082126, 10091226, 11081458, 12080720>>,
  <<1061823, 2050610, 3070038, 4060604, 5070001, 6070440, 7081508, 8090047, 9090313, 10091813, 11082045, 12081308>>,
  <<1070011, 2051158, 3060625, 4051150, 5060547, 6061026, 7072054, 8080632, 9080859, 10082359, 11080232, 12071855>>,
  <<1060558, 2041745, 3061212, 4051737, 5061133, 6061612, 7080239, 8081218, 9081445, 10090546, 11080819, 12080043>>,
  <<1061145, 2042333, 3061759, 4052323, 5061719, 6062158, 7080825, 8081804, 9082031, 10091132, 11081406, 12080630>>,
  <<1061733, 2050520, 3062346, 4060510, 5062306, 6070344, 7081411, 8082350, 9090217, 10091719, 11081953, 12081218>>,
  <<1062321, 2051108, 3060533, 4051057, 5060452, 6060930, 7071957, 8080536, 9080804, 10082306, 11080141, 12071806>>,
  <<1060509, 2041656, 3061122, 4051645, 5061040, 6061517, 7080144, 8081124, 9081352, 10090455, 11080730, 12072355>>,
  <<1061058, 2042245, 3061711, 4052233, 5061628, 6062105, 7080732, 8081712, 9081940, 10091044, 11081319, 12080545>>,
  <<1061648, 2050435, 3062300, 4060423, 5062217, 6070254, 7081321, 8082300, 9090130, 10091633, 11081910, 12081135>>,
  <<1062239, 2051026, 3060451, 4051013, 5060407, 6060843, 7071910, 8080450, 9080720, 10082224, 11080100, 12071726>>,
  <<1060430, 2041617, 3061042, 4051604, 5060957, 6061433, 7080100, 8081040, 9081310, 10090414, 11080652, 12072318>>,
  <<1061022, 2042209, 3061633, 4052155, 5061548, 6062024, 7080650, 8081630, 9081901, 10091005, 11081243, 12080510>>,
  <<1061614, 2050400, 3062224, 4060346, 5062138, 6070214, 7081241, 8082221, 9090051, 10091556, 11081834, 12081101>>,
  <<1062206, 2050952, 3060416, 4050937, 5060329, 6060804, 7071831, 8080411, 9080642, 10082147, 11080026, 12071653>>,
  <<1060357, 2041543, 3061007, 4051527, 5060919, 6061354, 7080020, 8081001, 9081232, 10090338, 11080616, 12072244>>,
  <<1060948, 2042134, 3061557, 4052117, 5061509, 6061943, 7080609, 8081550, 9081821, 10090927, 11081206, 12080434>>,
  <<1061538, 2050324, 3062147, 4060307, 5062057, 6070132, 7081158, 8082138, 9090009, 10091516, 11081755, 12081023>>,
  <<1062128, 2050914, 3060336, 4050855, 5060245, 6060719, 7071745, 8080325, 9080557, 10082104, 11072344, 12071612>>,
  <<1060316, 2041502, 3060924, 4051443, 5060833, 6061306, 7072332, 8080912, 9081144, 10090251, 11080531, 12072200>>,
  <<1060905, 2042050, 3061512, 4052030, 5061419, 6061852, 7080518, 8081458, 9081730, 10090838, 11081119, 12080347>>,
  <<1061452, 2050238, 3062059, 4060216, 5062005, 6070038, 7081103, 8082044, 9082316, 10091425, 11081706, 12080935>>,
  <<1062039, 2050825, 3060246, 4050803, 5060151, 6060624, 7071649, 8080229, 9080502, 10082011, 11072252, 12071522>>,
  <<1060227, 2041412, 3060833, 4051349, 5060737, 6061209, 7072234, 8080815, 9081048, 10090158, 11080440, 12072109>>,
  <<1060814, 2042000, 3061420, 4051936, 5061324, 6061755, 7080420, 8081401, 9081635, 10090745, 11081027, 12080257>>,
  <<1061403, 2050148, 3062008, 4060124, 5061911, 6062342, 7081007, 8081948, 9082222, 10091332, 11081615, 12080846>>,
  <<1061951, 2050737, 3060156, 4050712, 5060058, 6060530, 7071554, 8080136, 9080410, 10081921, 11072204, 12071435>>,
  <<1060141, 2041326, 3060746, 4051301, 5060647, 6061118, 7072143, 8080724, 9080959, 10090110, 11080354, 12072025>>,
  <<1060731, 2041916, 3061335, 4051850, 5061236, 6061707, 7080332, 8081313, 9081548, 10090700, 11080944, 12080216>>,
  <<1061322, 2050107, 3061926, 4060041, 5061826, 6062257, 7080921, 8081903, 9082138, 10091251, 11081535, 12080807>>,
  <<1061913, 2050658, 3060117, 4050631, 5060017, 6060447, 7071511, 8080053, 9080329, 10081841, 11072127, 12071359>>,
  <<1060105, 2041250, 3060709, 4051223, 5060607, 6061037, 7072102, 8080644, 9080920, 10090033, 11080318, 12071950>>,
  <<1060657, 2041842, 3061300, 4051814, 5061158, 6061628, 7080252, 8081234, 9081510, 10090624, 11080909, 12080142>>,
  <<1061249, 2050033, 3061852, 4060005, 5061749, 6062218, 7080842, 8081824, 9082101, 10091214, 11081500, 12080733>>,
  <<1061840, 2050625, 3060042, 4050555, 5052338, 6060407, 7071431, 8080013, 9080250, 10081804, 11072051, 12071324>>,
  <<1060031, 2041215, 3060633, 4051145, 5060528, 6060956, 7072020, 8080602, 9080839, 10082353, 11080240, 12071914>>,
  <<1060621, 2041805, 3061222, 4051734, 5061116, 6061544, 7080208, 8081150, 9081427, 10090542, 11080829, 12080103>>,
  <<1061210, 2042354, 3061811, 4052322, 5061704, 6062131, 7080755, 8081737, 9082015, 10091130, 11081417, 12080651>>,
  <<1061758, 2050542, 3052359, 4050509, 5052251, 6060318, 7071341, 8072324, 9080201, 10081717, 11072005, 12071239>>,
  <<1052346, 2041130, 3060546, 4051056, 5060437, 6060904, 7071927, 8080509, 9080748, 10082303, 11080152, 12071826>>,
  <<1060534, 2041717, 3061133, 4051643, 5061023, 6061450, 7080112, 8081055, 9081334, 10090450, 11080739, 12080014>>,
  <<1061121, 2042305, 3061720, 4052229, 5061609, 6062035, 7080658, 8081641, 9081920, 10091036, 11081326, 12080601>>,
  <<1061708, 2050452, 3052307, 4050416, 5052155, 6060221, 7071244, 8072227, 9080106, 10081623, 11071913, 12071148>>,
  <<1052256, 2041040, 3060454, 4051003, 5060342, 6060808, 7071830, 8080413, 9080653, 10082210, 11080101, 12071737>>,
  <<1060444, 2041628, 3061042, 4051550, 5060929, 6061354, 7080017, 8081000, 9081240, 10090358, 11080649, 12072325>>,
  <<1061033, 2042217, 3061631, 4052139, 5061517, 6061942, 7080605, 8081548, 9081828, 10090947, 11081238, 12080515>>,
  <<1061623, 2050407, 3052221, 4050328, 5052106, 6060131, 7071153, 8072137, 9080017, 10081537, 11071828, 12071105>>,
  <<1052214, 2040957, 3060411, 4050918, 5060256, 6060720, 7071742, 8080326, 9080607, 10082127, 11080019, 12071656>>,
  <<1060405, 2041548, 3061002, 4051508, 5060846, 6061310, 7072332, 8080916, 9081157, 10090317, 11080610, 12072248>>,
  <<1060956, 2042140, 3061553, 4052059, 5061436, 6061900, 7080522, 8081506, 9081748, 10090908, 11081202, 12080440>>,
  <<1061548, 2050331, 3052145, 4050251, 5052027, 6060051, 7071113, 8072057, 9072339, 10081500, 11071753, 12071031>>,
  <<1052140, 2040923, 3060336, 4050842, 5060218, 6060641, 7071703, 8080247, 9080529, 10082050, 11072344, 12071623>>,
  <<1060332, 2041515, 3060927, 4051432, 5060808, 6061231, 7072253, 8080837, 9081119, 10090241, 11080535, 12072214>>,
  <<1060923, 2042106, 3061518, 4052022, 5061358, 6061820, 7080442, 8081426, 9081709, 10090830, 11081125, 12080404>>,
  <<1061513, 2050256, 3052108, 4050212, 5051947, 6060009, 7071030, 8072014, 9072257, 10081419, 11071714, 12070954>>,
  <<1052103, 2040845, 3060257, 4050801, 5060135, 6060557, 7071618, 8080202, 9080445, 10082008, 11072303, 12071542>>,
  <<1060252, 2041434, 3060845, 4051348, 5060722, 6061144, 7072204, 8080749, 9081032, 10090155, 11080451, 12072131>>,
  <<1060840, 2042022, 3061433, 4051936, 5061309, 6061730, 7080351, 8081335, 9081619, 10090742, 11081038, 12080318>>,
  <<1061427, 2050210, 3052020, 4050122, 5051855, 6052316, 7070936, 8071921, 9072205, 10081329, 11071625, 12070905>>,
  <<1052015, 2040757, 3060207, 4050709, 5060041, 6060501, 7071522, 8080106, 9080351, 10081915, 11072212, 12071453>>,
  <<1060202, 2041344, 3060754, 4051255, 5060627, 6061047, 7072107, 8080652, 9080937, 10090101, 11080359, 12072040>>,
  <<1060750, 2041932, 3061341, 4051842, 5061214, 6061633, 7080253, 8081238, 9081523, 10090648, 11080946, 12080228>>,
  <<1061338, 2050119, 3051929, 4050029, 5051801, 6052220, 7070840, 8071825, 9072110, 10081236, 11071534, 12070816>>,
  <<1051926, 2040708, 3060117, 4050617, 5052348, 6060407, 7071427, 8080012, 9080258, 10081824, 11072123, 12071405>>,
  <<1060115, 2041257, 3060706, 4051206, 5060536, 6060955, 7072015, 8080600, 9080846, 10090013, 11080313, 12071955>>,
  <<1060706, 2041847, 3061256, 4051755, 5061126, 6061544, 7080204, 8081149, 9081436, 10090603, 11080903, 12080146>>,
  <<1061256, 2050038, 3051846, 4042346, 5051715, 6052133, 7070753, 8071739, 9072026, 10081153, 11071454, 12070737>>,
  <<1051848, 2040629, 3060038, 4050536, 5052306, 6060324, 7071343, 8072329, 9080216, 10081744, 11072045, 12071328>>,
  <<1060039, 2041221, 3060629, 4051127, 5060456, 6060914, 7071933, 8080519, 9080807, 10082335, 11080236, 12071920>>,
  <<1060631, 2041813, 3061220, 4051719, 5061047, 6061504, 7080124, 8081110, 9081357, 10090526, 11080828, 12080112>>,
  <<1061223, 2050004, 3051812, 4042310, 5051638, 6052055, 7070714, 8071700, 9071948, 10081117, 11071419, 12070703>>,
  <<1051814, 2040556, 3060003, 4050500, 5052228, 6060244, 7071303, 8072249, 9080138, 10081707, 11072009, 12071254>>,
  <<1060005, 2041146, 3060553, 4051050, 5060417, 6060833, 7071852, 8080438, 9080727, 10082257, 11080159, 12071844>>,
  <<1060555, 2041736, 3061143, 4051639, 5061006, 6061422, 7080040, 8081026, 9081315, 10090445, 11080748, 12080033>>,
  <<1061145, 2042325, 3051732, 4042228, 5051554, 6052009, 7070627, 8071614, 9071903, 10081033, 11071336, 12070622>>,
  <<1051733, 2040514, 3052320, 4050415, 5052141, 6060156, 7071214, 8072200, 9080049, 10081620, 11071924, 12071210>>,
  <<1052321, 2041102, 3060507, 4051002, 5060327, 6060742, 7071800, 8080346, 9080636, 10082207, 11080111, 12071757>>,
  <<1060509, 2041649, 3061054, 4051549, 5060913, 6061328, 7072345, 8080932, 9081222, 10090354, 11080658, 12072344>>,
  <<1061056, 2042236, 3051641, 4042135, 5051459, 6051913, 7070531, 8071517, 9071808, 10080940, 11071245, 12070532>>,
  <<1051643, 2040424, 3052228, 4050322, 5052046, 6060059, 7071117, 8072103, 9072354, 10081527, 11071832, 12071119>>,
  <<1052231, 2041011, 3060416, 4050909, 5060232, 6060645, 7071703, 8080249, 9080540, 10082114, 11080020, 12071707>>,
  <<1060419, 2041559, 3061003, 4051456, 5060819, 6061232, 7072249, 8080836, 9081128, 10090301, 11080608, 12072256>>,
  <<1061008, 2042148, 3051552, 4042044, 5051407, 6051820, 7070437, 8071424, 9071716, 10080850, 11071157, 12070445>>,
  <<1051558, 2040338, 3052141, 4050233, 5051956, 6060008, 7071025, 8072013, 9072305, 10081439, 11071747, 12071035>>,
  <<1052148, 2040928, 3060331, 4050823, 5060145, 6060557, 7071614, 8080202, 9080454, 10082029, 11072337, 12071626>>,
  <<1060339, 2041519, 3060922, 4051414, 5060735, 6061147, 7072204, 8080752, 9081044, 10090220, 11080528, 12072217>>,
  <<1060931, 2042111, 3051513, 4042004, 5051326, 6051737, 7070354, 8071342, 9071635, 10080811, 11071120, 12070409>>,
  <<1051522, 2040302, 3052105, 4050156, 5051916, 6052328, 7070945, 8071932, 9072226, 10081402, 11071711, 12071001>>,
  <<1052114, 2040854, 3060256, 4050747, 5060107, 6060518, 7071535, 8080123, 9080416, 10081953, 11072302, 12071552>>,
  <<1060306, 2041446, 3060848, 4051337, 5060657, 6061108, 7072125, 8080712, 9081006, 10090143, 11080453, 12072143>>,
  <<1060857, 2042037, 3051438, 4041928, 5051247, 6051658, 7070314, 8071302, 9071556, 10080733, 11071043, 12070334>>,
  <<1051448, 2040227, 3052028, 4050117, 5051836, 6052246, 7070902, 8071850, 9072145, 10081322, 11071633, 12070924>>,
  <<1052037, 2040817, 3060218, 4050706, 5060025, 6060434, 7071450, 8080038, 9080333, 10081911, 11072222, 12071513>>,
  <<1060226, 2041406, 3060806, 4051254, 5060612, 6061021, 7072037, 8080625, 9080920, 10090058, 11080410, 12072101>>,
  <<1060815, 2041954, 3051354, 4041842, 5051159, 6051608, 7070223, 8071211, 9071506, 10080645, 11070957, 12070249>>,
  <<1051403, 2040141, 3051941, 4050029, 5051746, 6052154, 7070809, 8071757, 9072053, 10081232, 11071544, 12070836>>,
  <<1051950, 2040729, 3060128, 4050615, 5052332, 6060339, 7071355, 8072343, 9080239, 10081818, 11072131, 12071423>>,
  <<1060137, 2041316, 3060715, 4051202, 5060518, 6060925, 7071940, 8080529, 9080825, 10090005, 11080318, 12072010>>,
  <<1060725, 2041903, 3051302, 4041748, 5051104, 6051511, 7070126, 8071114, 9071411, 10080552, 11070905, 12070158>>,
  <<1051313, 2040051, 3051850, 4042335, 5051651, 6052057, 7070712, 8071701, 9071958, 10081139, 11071453, 12070746>>,
  <<1051901, 2040640, 3060038, 4050523, 5052238, 6060245, 7071259, 8072248, 9080145, 10081727, 11072041, 12071335>>,
  <<1060050, 2041229, 3060627, 4051112, 5060426, 6060832, 7071847, 8080436, 9080734, 10082316, 11080231, 12071925>>,
  <<1060640, 2041818, 3051217, 4041701, 5051015, 6051421, 7070036, 8071025, 9071323, 10080506, 11070821, 12070115>>,
  <<1051231, 2040009, 3051807, 4042251, 5051605, 6052011, 7070625, 8071614, 9071913, 10081056, 11071412, 12070706>>,
  <<1051822, 2040600, 3052358, 4050442, 5052155, 6060201, 7071215, 8072204, 9080103, 10081647, 11072003, 12071258>>,
  <<1060014, 2041152, 3060549, 4051033, 5060346, 6060751, 7071805, 8080355, 9080654, 10082238, 11080154, 12071850>>,
  <<1060605, 2041744, 3051141, 4041624, 5050936, 6051341, 7062356, 8070945, 9071244, 10080429, 11070746, 12070041>>,
  <<1051157, 2032335, 3051732, 4042215, 5051527, 6051932, 7070546, 8071535, 9071835, 10081019, 11071337, 12070633>>,
  <<1051749, 2040527, 3052323, 4050405, 5052117, 6060121, 7071135, 8072125, 9080025, 10081610, 11071927, 12071224>>,
  <<1052340, 2041117, 3060514, 4050956, 5060307, 6060711, 7071724, 8080314, 9080614, 10082159, 11080117, 12071814>>,
  <<1060530, 2041708, 3051104, 4041545, 5050856, 6051259, 7062313, 8070902, 9071202, 10080348, 11070706, 12070003>>,
  <<1051119, 2032257, 3051653, 4042133, 5051444, 6051847, 7070500, 8071450, 9071750, 10080936, 11071255, 12070552>>,
  <<1051708, 2040446, 3052241, 4050321, 5052031, 6060034, 7071047, 8072036, 9072337, 10081524, 11071843, 12071140>>,
  <<1052256, 2041034, 3060429, 4050908, 5060218, 6060620, 7071633, 8080223, 9080523, 10082110, 11080030, 12071727>>,
  <<1060444, 2041621, 3051016, 4041455, 5050804, 6051206, 7062218, 8070808, 9071109, 10080257, 11070617, 12062315>>,
  <<1051031, 2032208, 3051603, 4042042, 5051350, 6051751, 7070404, 8071354, 9071655, 10080843, 11071204, 12070502>>,
  <<1051619, 2040356, 3052150, 4050228, 5051936, 6052337, 7070949, 8071940, 9072241, 10081430, 11071751, 12071049>>,
  <<1052206, 2040943, 3060337, 4050815, 5060122, 6060523, 7071535, 8080126, 9080428, 10082017, 11072338, 12071637>>,
  <<1060354, 2041531, 3050925, 4041402, 5050709, 6051110, 7062122, 8070712, 9071015, 10080204, 11070526, 12062226>>,
  <<1050943, 2032120, 3051513, 4041950, 5051257, 6051657, 7070309, 8071300, 9071603, 10080753, 11071115, 12070415>>,
  <<1051532, 2040309, 3052102, 4050139, 5051845, 6052245, 7070857, 8071848, 9072151, 10081342, 11071705, 12071005>>,
  <<1052122, 2040859, 3060252, 4050729, 5060035, 6060434, 7071446, 8080037, 9080341, 10081932, 11072255, 12071555>>,
  <<1060313, 2041450, 3050843, 4041319, 5050625, 6051024, 7062036, 8070627, 9070931, 10080122, 11070446, 12062147>>,
  <<1050905, 2032041, 3051434, 4041910, 5051215, 6051614, 7070226, 8071217, 9071521, 10080713, 11071037, 12070338>>,
  <<1051456, 2040233, 3052025, 4050101, 5051806, 6052205, 7070816, 8071808, 9072112, 10081304, 11071629, 12070930>>,
  <<1052048, 2040825, 3060217, 4050652, 5052356, 6060355, 7071407, 8072358, 9080303, 10081855, 11072220, 12071522>>,
  <<1060240, 2041416, 3050808, 4041243, 5050547, 6050945, 7061956, 8070548, 9070853, 10080046, 11070411, 12062113>>,
  <<1050831, 2032008, 3051359, 4041833, 5051137, 6051535, 7070146, 8071137, 9071443, 10080636, 11071001, 12070303>>,
  <<1051422, 2040158, 3051949, 4050023, 5051726, 6052124, 7070735, 8071726, 9072032, 10081225, 11071551, 12070853>>,
  <<1052012, 2040748, 3060139, 4050612, 5052315, 6060312, 7071323, 8072314, 9080220, 10081813, 11072140, 12071443>>,
  <<1060201, 2041337, 3050728, 4041200, 5050502, 6050859, 7061910, 8070501, 9070807, 10080001, 11070328, 12062031>>,
  <<1050750, 2031925, 3051316, 4041748, 5051050, 6051446, 7070056, 8071048, 9071354, 10080548, 11070916, 12070219>>,
  <<1051338, 2040113, 3051903, 4042335, 5051636, 6052032, 7070642, 8071634, 9071940, 10081135, 11071503, 12070806>>,
  <<1051925, 2040701, 3060050, 4050522, 5052222, 6060218, 7071227, 8072219, 9080126, 10081721, 11072049, 12071353>>,
  <<1060112, 2041248, 3050637, 4041108, 5050408, 6050803, 7061813, 8070405, 9070712, 10072308, 11070236, 12061941>>,
  <<1050700, 2031835, 3051224, 4041655, 5050954, 6051349, 7062359, 8070951, 9071258, 10080454, 11070823, 12070128>>,
  <<1051247, 2040023, 3051811, 4042242, 5051541, 6051935, 7070545, 8071537, 9071845, 10081042, 11071411, 12070716>>,
  <<1051836, 2040611, 3052359, 4050429, 5052128, 6060122, 7071132, 8072124, 9080032, 10081630, 11072000, 12071305>>,
  <<1060025, 2041200, 3050548, 4041018, 5050316, 6050710, 7061719, 8070312, 9070620, 10072218, 11070149, 12061854>>,
  <<1050614, 2031750, 3051137, 4041607, 5050905, 6051258, 7062308, 8070900, 9071209, 10080408, 11070739, 12070045>>,
  <<1051205, 2032340, 3051728, 4042157, 5051454, 6051848, 7070457, 8071450, 9071759, 10080958, 11071329, 12070636>>,
  <<1051756, 2040531, 3052319, 4050347, 5052044, 6060038, 7071047, 8072040, 9072349, 10081548, 11071920, 12071227>>,
  <<1052347, 2041123, 3050510, 4040938, 5050235, 6050628, 7061637, 8070230, 9070540, 10072139, 11070112, 12061819>>,
  <<1050539, 2031714, 3051101, 4041529, 5050826, 6051218, 7062227, 8070820, 9071130, 10080330, 11070703, 12070010>>,
  <<1051131, 2032306, 3051653, 4042120, 5051416, 6051809, 7070417, 8071411, 9071721, 10080921, 11071254, 12070602>>,
  <<1051723, 2040458, 3052244, 4050311, 5052007, 6052359, 7071007, 8072000, 9072311, 10081512, 11071845, 12071153>>,
  <<1052314, 2041049, 3050435, 4040901, 5050157, 6050548, 7061556, 8070150, 9070500, 10072101, 11070035, 12061743>>,
  <<1050504, 2031639, 3051025, 4041451, 5050746, 6051137, 7062145, 8070738, 9071049, 10080250, 11070624, 12062333>>,
  <<1051054, 2032228, 3051614, 4042040, 5051334, 6051724, 7070332, 8071326, 9071637, 10080839, 11071213, 12070522>>,
  <<1051643, 2040417, 3052202, 4050227, 5051921, 6052312, 7070919, 8071912, 9072224, 10081426, 11071801, 12071110>>,
  <<1052231, 2041005, 3050350, 4040815, 5050108, 6050458, 7061505, 8070059, 9070411, 10072013, 11062348, 12061657>>,
  <<1050419, 2031553, 3050937, 4041402, 5050654, 6051044, 7062051, 8070644, 9070957, 10080200, 11070535, 12062245>>,
  <<1051006, 2032140, 3051524, 4041948, 5051240, 6051629, 7070237, 8071230, 9071543, 10080746, 11071122, 12070432>>,
  <<1051553, 2040327, 3052111, 4050135, 5051826, 6052215, 7070822, 8071816, 9072129, 10081332, 11071709, 12071019>>,
  <<1052141, 2040915, 3050258, 4040721, 5050013, 6050401, 7061408, 8070002, 9070315, 10071919, 11062256, 12061607>>,
  <<1050329, 2031503, 3050846, 4041309, 5050600, 6050948, 7061954, 8070548, 9070902, 10080107, 11070444, 12062155>>,
  <<1050917, 2032051, 3051434, 4041856, 5051147, 6051535, 7070142, 8071136, 9071449, 10080655, 11071033, 12070344>>,
  <<1051507, 2040240, 3052023, 4050045, 5051735, 6052123, 7070729, 8071724, 9072038, 10081244, 11071622, 12070934>>,
  <<1052057, 2040830, 3050213, 4040635, 5042324, 6050312, 7061318, 8062313, 9070227, 10071833, 11062212, 12061525>>,
  <<1050247, 2031421, 3050803, 4041225, 5050514, 6050901, 7061908, 8070502, 9070817, 10080024, 11070403, 12062116>>,
  <<1050839, 2032012, 3051355, 4041815, 5051105, 6051451, 7070058, 8071052, 9071407, 10080615, 11070954, 12070307>>,
  <<1051430, 2040204, 3051946, 4050006, 5051655, 6052042, 7070648, 8071643, 9071958, 10081206, 11071546, 12070859>>,
  <<1052022, 2040756, 3050137, 4040558, 5042246, 6050232, 7061238, 8062233, 9070149, 10071757, 11062137, 12061451>>,
  <<1050214, 2031347, 3050729, 4041149, 5050437, 6050822, 7061828, 8070423, 9070739, 10072347, 11070328, 12062042>>,
  <<1050805, 2031939, 3051320, 4041739, 5051027, 6051412, 7070018, 8071013, 9071329, 10080537, 11070919, 12070233>>,
  <<1051356, 2040129, 3051910, 4042329, 5051616, 6052001, 7070607, 8071602, 9071918, 10081127, 11071509, 12070823>>,
  <<1051946, 2040719, 3050100, 4040518, 5042205, 6050150, 7061155, 8062150, 9070106, 10071716, 11062058, 12061412>>,
  <<1050136, 2031309, 3050649, 4041107, 5050353, 6050737, 7061742, 8070337, 9070654, 10072304, 11070246, 12062001>>,
  <<1050724, 2031857, 3051237, 4041654, 5050940, 6051324, 7062329, 8070924, 9071241, 10080451, 11070834, 12070149>>,
  <<1051312, 2040045, 3051825, 4042242, 5051527, 6051910, 7070515, 8071510, 9071827, 10081037, 11071421, 12070736>>,
  <<1051900, 2040633, 3050012, 4040428, 5042113, 6050056, 7061100, 8062055, 9070013, 10071624, 11062008, 12061323>>,
  <<1050047, 2031220, 3050559, 4041015, 5050259, 6050641, 7061646, 8070241, 9070559, 10072210, 11070154, 12061910>>,
  <<1050635, 2031807, 3051146, 4041601, 5050845, 6051227, 7062231, 8070827, 9071145, 10080357, 11070741, 12070058>>,
  <<1051222, 2032355, 3051733, 4042148, 5051431, 6051813, 7070417, 8071413, 9071732, 10080944, 11071329, 12070646>>,
  <<1051810, 2040543, 3042321, 4040336, 5042018, 6050000, 7061004, 8062000, 9062319, 10071532, 11061917, 12061234>>,
  <<1042359, 2031131, 3050509, 4040924, 5050206, 6050548, 7061551, 8070147, 9070507, 10072120, 11070106, 12061824>>,
  <<1050549, 2031721, 3051059, 4041513, 5050755, 6051136, 7062140, 8070736, 9071056, 10080309, 11070656, 12070014>>,
  <<1051139, 2032311, 3051649, 4042102, 5051344, 6051725, 7070329, 8071325, 9071645, 10080859, 11071246, 12070604>>,
  <<1051730, 2040502, 3042239, 4040253, 5041934, 6042315, 7060918, 8061915, 9062235, 10071450, 11061837, 12061156>>,
  <<1042321, 2031054, 3050431, 4040844, 5050125, 6050505, 7061509, 8070105, 9070426, 10072041, 11070029, 12061747>>,
  <<1050513, 2031645, 3051022, 4041435, 5050715, 6051055, 7062059, 8070655, 9071016, 10080232, 11070620, 12062339>>,
  <<1051105, 2032237, 3051614, 4042026, 5051306, 6051646, 7070249, 8071246, 9071607, 10080823, 11071211, 12070531>>,
  <<1051657, 2040429, 3042205, 4040217, 5041857, 6042236, 7060839, 8061835, 9062157, 10071413, 11061802, 12061122>>,
  <<1042248, 2031020, 3050356, 4040807, 5050047, 6050425, 7061428, 8070025, 9070347, 10072003, 11062352, 12061712>>,
  <<1050438, 2031610, 3050946, 4041357, 5050636, 6051014, 7062017, 8070613, 9070935, 10080152, 11070542, 12062302>>,
  <<1051028, 2032200, 3051535, 4041946, 5051224, 6051602, 7070205, 8071201, 9071523, 10080741, 11071131, 12070451>>,
  <<1051617, 2040349, 3042124, 4040134, 5041812, 6042149, 7060752, 8061748, 9062111, 10071328, 11061719, 12061039>>,
  <<1042206, 2030937, 3050312, 4040721, 5042359, 6050336, 7061338, 8062335, 9070257, 10071915, 11062306, 12061627>>,
  <<1050353, 2031525, 3050859, 4041308, 5050545, 6050922, 7061924, 8070520, 9070843, 10080102, 11070453, 12062214>>,
  <<1050941, 2032112, 3051446, 4041855, 5051131, 6051508, 7070109, 8071106, 9071429, 10080648, 11071040, 12070402>>,
  <<1051528, 2040259, 3052033, 4050041, 5051717, 6052053, 7070655, 8071652, 9072015, 10081235, 11071627, 12070949>>,
  <<1052116, 2040847, 3060220, 4050628, 5052303, 6060239, 7071241, 8072237, 9080202, 10081821, 11072214, 12071536>> >>

calcSolarTerm(year, termIndex) ==
  LET e == solarTermTable[year - 1898][(termIndex \div 2) + 1]
  IN  [year |-> year, month |-> e \div 1000000, day |-> (e \div 10000) % 100,
       hour |-> (e \div 100) % 100, minute |-> e % 100]

\* the 12 sectional terms: lichun, jingzhe, ..., daxue, xiaohan
JIEQI_INDEXES == Arr(<<2, 4, 6, 8, 10, 12, 14, 16, 18, 20, 22, 0>>)

\* the list getJieqi computes for a year that is not cached
computeJieqi(year) ==
  [i \in 0..11 |->
     IF i < 11 THEN calcSolarTerm(year, JIEQI_INDEXES[i])
               ELSE calcSolarTerm(year + 1, JIEQI_INDEXES[11])]

\* a faulty variant of getJieqi: the list is stored under the next year
getJieqi_NextKey(cache, year) ==
  IF year \in DOMAIN cache
  THEN [terms |-> cache[year], cache |-> cache]
  ELSE [terms |-> computeJieqi(year),
        cache |-> [y \in (DOMAIN cache) \cup {year + 1} |->
                     IF y = year + 1 THEN computeJieqi(year) ELSE cache[y]]]

\* getJieqi on a cache: the terms returned and the cache afterwards
getJieqi(cache, year) ==
  IF year \in DOMAIN cache
  THEN [terms |-> cache[year], cache |-> cache]
  ELSE LET result == computeJieqi(year)
       IN  [terms |-> result,
            cache |-> [y \in (DOMAIN cache) \cup {year} |->
                         IF y = year THEN result ELSE cache[y]]]

\* JIEQI_BRANCH of getMonthBranchIdx
JIEQI_BRANCH == Arr(<<2, 3, 4, 5, 6, 7, 8, 9, 10, 11, 0, 1>>)

\* isAfter of getMonthBranchIdx for term t
isAfterTerm(t, month, day, hour) ==
  \/ month > t.month
  \/ (month = t.month /\ day > t.day)
  \/ (month = t.month /\ day = t.day /\ hour * 60 >= t.hour * 60 + t.minute)

\* the loop of getMonthBranchIdx from term i on: lastIdx when it ends
RECURSIVE lastPassedTerm(_, _, _, _, _, _)
lastPassedTerm(terms, month, day, hour, i, lastIdx) ==
  IF i = 12 THEN lastIdx
  ELSE IF isAfterTerm(terms[i], month, day, hour)
       THEN lastPassedTerm(terms, month, day, hour, i + 1, i)
       ELSE lastIdx

getMonthBranchIdx(cache, year, month, day, hour) ==
  Only({
    IF month < terms[0].month \/ (month = terms[0].month /\ day < terms[0].day)
    THEN JIEQI_BRANCH[11]
    ELSE JIEQI_BRANCH[lastPassedTerm(terms, month, day, hour, 0, 0)] :
      terms \in {getJieqi(cache, year).terms} })

\* HOUR_START: the first hour of each two-hour slot
HOUR_START == Arr(<<23, 1, 3, 5, 7, 9, 11, 13, 15, 17, 19, 21>>)

getYearStemBranch(cache, year, month, day, hourBranchIdx) ==
  Only({
    LET birthMinute == HOUR_START[hourBranchIdx] * 60
        lichunMinute == lichun.hour * 60 + lichun.minute
        bornBefore ==
          \/ month < lichun.month
          \/ (month = lichun.month /\ day < lichun.day)
          \/ (month = lichun.month /\ day = lichun.day
                /\ birthMinute < lichunMinute)
        y == IF bornBefore THEN year - 1 ELSE year
    IN  [stemIdx |-> JsMod(y - 4, 10), branchIdx |-> JsMod(y - 4, 12)] :
      lichun \in {getJieqi(cache, year).terms[0]} })

\* bases = [2, 4, 6, 8, 0] (five-tiger rule)
fiveTigerBases == Arr(<<2, 4, 6, 8, 0>>)

getMonthStemBranch(cache, yearStemIdx, year, month, day, hourBranchIdx) ==
  Only({
    LET offset == JsRem(branchIdx - 2 + 12, 12)
        stemIdx == JsRem(fiveTigerBases[JsRem(yearStemIdx, 5)] + offset, 10)
    IN  [stemIdx |-> stemIdx, branchIdx |-> branchIdx] :
      branchIdx \in {getMonthBranchIdx(cache, year, month, day,
                                       hourBranchIdx)} })

\* ---------------------------------------------------------------------
\* calcBaziPillars
\* ---------------------------------------------------------------------
Elements == {"wood", "fire", "earth", "metal", "water"}

\* elemCount[p.stemEle]++, elemCount[p.branchEle]++ over the four pillars
elemCountOf(pillars) ==
  [e \in Elements |->
     Cardinality({i \in 0..3 : pillars[i].stemEle = e})
       + Cardinality({i \in 0..3 : pillars[i].branchEle = e})]

\* the eight luck pillars stepped from the month pillar indices
daYunOf(monthStemIdx, monthBranchIdx, daYunForward, startAge) ==
  [i \in 0..7 |->
     LET offset == IF daYunForward THEN i + 1 ELSE 0 - (i + 1)
         dyIdx == JsRem(monthStemIdx + offset + 100, 10)
         dyBIdx == JsRem(monthBranchIdx + offset + 120, 12)
     IN  [age |-> startAge + i * 10, ageEnd |-> startAge + i * 10 + 9,
          stem |-> dyIdx, branch |-> dyBIdx,
          stemEle |-> STEM_ELEMENTS[dyIdx],
          branchEle |-> BRANCH_ELEMENTS[dyBIdx]]]

\* the four pillars of the chart (both revisions)
pillarsOf(yearInfo, monthInfo, day, hour, hr) ==
  Arr(<<
    [label |-> "year", stem |-> yearInfo.yearStem,
     branch |-> yearInfo.yearBranch,
     stemEle |-> STEM_ELEMENTS[yearInfo.yearStemIdx],
     branchEle |-> BRANCH_ELEMENTS[yearInfo.yearBranchIdx],
     stemYY |-> STEM_YIN_YANG[yearInfo.yearStemIdx]],
    [label |-> "month", stem |-> monthInfo.monthStem,
     branch |-> monthInfo.monthBranch,
     stemEle |-> STEM_ELEMENTS[monthInfo.monthStemIdx],
     branchEle |-> BRANCH_ELEMENTS[monthInfo.monthBranchIdx],
     stemYY |-> STEM_YIN_YANG[monthInfo.monthStemIdx]],
    [label |-> "day", stem |-> day.stemIdx, branch |-> day.branchIdx,
     stemEle |-> STEM_ELEMENTS[day.stemIdx],
     branchEle |-> BRANCH_ELEMENTS[day.branchIdx],
     stemYY |-> STEM_YIN_YANG[day.stemIdx]],
    [label |-> "hour", stem |-> hr.stemIdx, branch |-> hour,
     stemEle |-> STEM_ELEMENTS[hr.stemIdx],
     branchEle |-> BRANCH_ELEMENTS[hour],
     stemYY |-> STEM_YIN_YANG[hr.stemIdx]] >>)

\* the chart assembled from the four pillars' pieces (both revisions)
chartOf(yearInfo, monthInfo, day, hour, daYunCalc) ==
  Only({
    [pillars |-> pillars,
     elemCount |-> elemCountOf(pillars),
     daYun |-> daYunOf(monthInfo.monthStemIdx, monthInfo.monthBranchIdx,
                       daYunCalc.direction = "shunxing", daYunCalc.startAge),
     info |-> [startAge |-> daYunCalc.startAge,
               daYunForward |-> daYunCalc.direction = "shunxing",
               daYunCalc |-> daYunCalc]] :
      pillars \in {pillarsOf(yearInfo, monthInfo, day, hour,
                             getHourStemBranch(day.stemIdx, hour))} })

\* js/bazi.js
calcBaziPillars(year, month, day, hour, gender) ==
  Only({
    Only({ chartOf(yearInfo, monthInfo, dayPillar, hour, daYunCalc) :
             daYunCalc \in {calcDaYunPrecise(year, month, day, 0, 0, gender,
                                             yearInfo.yearStemIdx)} }) :
      yearInfo \in {getYearFromSolarTerm(year, month, day)},
      monthInfo \in {getMonthFromSolarTerm(year, month, day, 0, 0)},
      dayPillar \in {dayPillarOf(floorJulianDay(year, month, day))} })

\* the later revision: the month pillar is taken for actualYear, and the
\* Julian day is the integer day number
calcBaziPillarsV2(year, month, day, hour, gender) ==
  Only({
    Only({ chartOf(yearInfo, monthInfo, dayPillar, hour, daYunCalc) :
             monthInfo \in {getMonthFromSolarTermV2(yearInfo.actualYear,
                                                    month, day, 0, 0)},
             daYunCalc \in {calcDaYunPrecise(year, month, day, 0, 0, gender,
                                             yearInfo.yearStemIdx)} }) :
      yearInfo \in {getYearFromSolarTerm(year, month, day)},
      dayPillar \in {dayPillarOf(getJulianDayV2(year, month, day))} })

\* the first definition of the later revision (astronomical terms):
\* four pillars { stemIdx, branchIdx, stem, branch, stemEle, branchEle }
calcBaziPillarsJieqi(cache, year, month, day, hourBranchIdx, gender) ==
  Only({
    Only({
      [i \in 0..3 |->
         [stemIdx |-> four[i].stemIdx, branchIdx |-> four[i].branchIdx,
          stem |-> four[i].stemIdx, branch |-> four[i].branchIdx,
          stemEle |-> STEM_ELEMENTS[four[i].stemIdx],
          branchEle |-> BRANCH_ELEMENTS[four[i].branchIdx]]] :
        four \in {Arr(<<yr, getMonthStemBranch(cache, yr.stemIdx, year, month,
                                               day, hourBranchIdx),
                        da, getHourStemBranch(da.stemIdx, hourBranchIdx)>>)} }) :
      yr \in {getYearStemBranch(cache, year, month, day, hourBranchIdx)},
      da \in {getDayStemBranch(year, month, day)} })

\* ---------------------------------------------------------------------
\* Ten gods (shishen)
\* ---------------------------------------------------------------------
\* the ten categories: bijian 比肩, jiecai 劫财, shishen 食神, shangguan 伤官,
\* piancai 偏财, zhengcai 正财, qisha 七杀, zhengguan 正官, pianyin 偏印,
\* zhengyin 正印

\* SHISHEN_MAP[day stem][other stem], the stems by their index in STEMS
SHISHEN_MAP ==
  Arr(<<
    Arr(<<"bijian", "jiecai", "shishen", "shangguan", "piancai",
          "zhengcai", "qisha", "zhengguan", "pianyin", "zhengyin">>),
    Arr(<<"jiecai", "bijian", "shangguan", "shishen", "zhengcai",
          "piancai", "zhengguan", "qisha", "zhengyin", "pianyin">>),
    Arr(<<"pianyin", "zhengyin", "bijian", "jiecai", "shishen",
          "shangguan", "piancai", "zhengcai", "qisha", "zhengguan">>),
    Arr(<<"zhengyin", "pianyin", "jiecai", "bijian", "shangguan",
          "shishen", "zhengcai", "piancai", "zhengguan", "qisha">>),
    Arr(<<"qisha", "zhengguan", "pianyin", "zhengyin", "bijian",
          "jiecai", "shishen", "shangguan", "piancai", "zhengcai">>),
    Arr(<<"zhengguan", "qisha", "zhengyin", "pianyin", "jiecai",
          "bijian", "shangguan", "shishen", "zhengcai", "piancai">>),
    Arr(<<"piancai", "zhengcai", "qisha", "zhengguan", "pianyin",
          "zhengyin", "bijian", "jiecai", "shangguan", "shishen">>),
    Arr(<<"zhengcai", "piancai", "zhengguan", "qisha", "zhengyin",
          "pianyin", "jiecai", "bijian", "shishen", "shangguan">>),
    Arr(<<"shishen", "shangguan", "piancai", "zhengcai", "qisha",
          "zhengguan", "pianyin", "zhengyin", "bijian", "jiecai">>),
    Arr(<<"shangguan", "shishen", "zhengcai", "piancai", "zhengguan",
          "qisha", "zhengyin", "pianyin", "jiecai", "bijian">>) >>)

\* a character that is no stem (getTenGod is also called with branches)
NotAStem == 10

\* a faulty variant of getTenGod: the polarity of the other stem is dropped
getTenGod_YangOnly(dayStem, targetStem) ==
  IF dayStem \in 0..9 /\ targetStem \in 0..9
  THEN SHISHEN_MAP[dayStem][targetStem - (targetStem % 2)]
  ELSE "none"

\* SHISHEN_MAP[dayStem]?.[targetStem] || '—'
getTenGod(dayStem, targetStem) ==
  IF dayStem \in 0..9 /\ targetStem \in 0..9
  THEN SHISHEN_MAP[dayStem][targetStem]
  ELSE "none"

\* ---------------------------------------------------------------------
\* Relationships between branches
\* ---------------------------------------------------------------------
\* a value that is no branch (empty, or a character that BRANCHES lacks)
NotABranch == 12

\* he (six combinations), the branches by their index in BRANCHES
he == Arr(<<1, 0, 11, 10, 9, 8, 7, 6, 5, 4, 3, 2>>)

\* xing (three punishments)
xing ==
  Arr(<<{0, 3}, {1, 10, 7}, {2, 5, 8}, {0, 3}, {4}, {2, 5, 8},
        {6}, {1, 10, 7}, {2, 5, 8}, {9}, {1, 10, 7}, {11}>>)

\* hai (six harms)
hai == Arr(<<7, 6, 5, 4, 3, 2, 1, 0, 11, 10, 9, 8>>)

\* po (breaking)
po == Arr(<<9, 4, 5, 8, 1, 2, 7, 6, 3, 0, 11, 10>>)

\* a faulty variant of branchDiff: the difference keeps its sign
branchDiff_Signed(idx1, idx2) == idx1 - idx2

\* diff = Math.abs(idx1 - idx2)
branchDiff(idx1, idx2) ==
  IF idx1 >= idx2 THEN idx1 - idx2 ELSE idx2 - idx1

\* checkRelationship: the first relationship that matches, "" for none
checkRelationship(branch1, branch2) ==
  IF branch1 \notin 0..11 \/ branch2 \notin 0..11 THEN ""
  ELSE IF he[branch1] = branch2 THEN "he"
  ELSE IF branchDiff(branch1, branch2) = 6 THEN "chong"
  ELSE IF branch2 \in xing[branch1] /\ branch1 # branch2 THEN "xing"
  ELSE IF hai[branch1] = branch2 THEN "hai"
  ELSE IF po[branch1] = branch2 THEN "po"
  ELSE ""

\* ---------------------------------------------------------------------
\* Flying stars (js/fengshui-calc.js)
\* ---------------------------------------------------------------------
\* the star entering the centre palace
centerStarOf(year) ==
  IF year >= 2024 THEN 9
  ELSE IF year >= 2004 THEN 8
  ELSE 7

\* positions: the eight outer palaces in flying order
starPositions ==
  Arr(<<[pos |-> "kan", row |-> 2, col |-> 1],
        [pos |-> "kun", row |-> 3, col |-> 0],
        [pos |-> "zhen", row |-> 3, col |-> 1],
        [pos |-> "xun", row |-> 3, col |-> 2],
        [pos |-> "qian", row |-> 0, col |-> 2],
        [pos |-> "dui", row |-> 0, col |-> 1],
        [pos |-> "gen", row |-> 0, col |-> 0],
        [pos |-> "li", row |-> 1, col |-> 2]>>)

\* currentStar after k steps of  currentStar >= 9 ? 1 : currentStar + 1
RECURSIVE starAfter(_, _)
starAfter(star, k) ==
  IF k = 0 THEN star
  ELSE LET prev == starAfter(star, k - 1)
       IN  IF prev >= 9 THEN 1 ELSE prev + 1

\* calcFlyingStars: the centre palace, then the eight outer palaces
calcFlyingStars(year) ==
  [i \in 0..8 |->
     IF i = 0
     THEN [position |-> "zhonggong", row |-> 1, col |-> 1,
           star |-> centerStarOf(year)]
     ELSE [position |-> starPositions[i - 1].pos,
           row |-> starPositions[i - 1].row,
           col |-> starPositions[i - 1].col,
           star |-> starAfter(centerStarOf(year), i)]]

\* ---------------------------------------------------------------------
\* Lunar dates (lunarToSolar)
\* ---------------------------------------------------------------------
\* the last year of LUNAR_INFO and of lunarNewYear
LastLunarYear == 2050

\* LUNAR_INFO: the leap month of each lunar year 1900..2050 (0: none),
\* one row per ten years
lunarInfoRows ==
  <<
    0, 6, 0, 0, 8, 0, 0, 0, 5, 0,
    0, 0, 7, 0, 0, 0, 5, 0, 0, 0,
    8, 0, 0, 0, 6, 0, 0, 0, 7, 0,
    0, 0, 8, 0, 0, 0, 5, 0, 0, 0,
    7, 0, 0, 0, 8, 0, 0, 0, 5, 0,
    0, 7, 0, 0, 0, 8, 0, 0, 0, 5,
    0, 0, 0, 7, 0, 0, 0, 8, 0, 0,
    0, 6, 0, 0, 0, 5, 0, 0, 0, 7,
    0, 0, 0, 8, 0, 0, 0, 6, 0, 0,
    0, 5, 0, 0, 0, 8, 0, 0, 0, 7,
    0, 0, 7, 0, 0, 0, 8, 0, 0, 0,
    5, 0, 0, 0, 7, 0, 0, 0, 8, 0,
    0, 0, 6, 0, 0, 0, 5, 0, 0, 0,
    8, 0, 0, 0, 7, 0, 0, 0, 8, 0,
    0, 0, 6, 0, 0, 0, 5, 0, 0, 0,
    8 >>

\* lunarNewYear: month * 100 + day of the first day of each lunar year
\* 1900..2050, one row per ten years
lunarNewYearRows ==
  <<
    121, 219, 208, 129, 215, 204, 125, 213, 202, 122,
    210, 130, 218, 206, 126, 214, 203, 123, 211, 201,
    121, 208, 128, 216, 205, 124, 213, 202, 123, 210,
    130, 217, 206, 126, 214, 204, 124, 211, 201, 121,
    209, 129, 215, 205, 125, 213, 202, 122, 210, 129,
    217, 206, 127, 214, 203, 124, 212, 201, 121, 208,
    128, 215, 205, 125, 213, 202, 121, 209, 130, 217,
    206, 127, 215, 203, 123, 211, 131, 218, 207, 127,
    216, 205, 125, 213, 202, 121, 209, 129, 217, 206,
    127, 215, 204, 123, 210, 131, 219, 207, 128, 216,
    205, 124, 212, 201, 122, 209, 129, 218, 207, 126,
    214, 203, 123, 210, 131, 219, 208, 128, 216, 205,
    125, 212, 201, 122, 210, 129, 217, 206, 126, 213,
    203, 123, 211, 131, 219, 208, 128, 215, 204, 124,
    212, 201, 122, 210, 130, 217, 206, 126, 213, 202,
    122 >>

\* LUNAR_INFO[y][0] (the table is read by no function of the file)
leapMonthOf(y) == lunarInfoRows[y - MinYear + 1]

\* lunarNewYear has an entry for the year
hasLunarNewYear(y) == y \in MinYear..LastLunarYear

\* ny = lunarNewYear[lunarYear] || [1, 21]
lunarAnchor(y) ==
  IF hasLunarNewYear(y)
  THEN <<lunarNewYearRows[y - MinYear + 1] \div 100,
         lunarNewYearRows[y - MinYear + 1] % 100>>
  ELSE <<1, 21>>

\* getMonthDays of lunarToSolar
getMonthDays(y, m) == IF m \in {1, 3, 5, 7, 8, 10, 12} THEN 30 ELSE 29

\* the days added by  for (i = 1; i < lunarMonth; i++)
RECURSIVE lunarMonthOffset(_, _)
lunarMonthOffset(y, lunarMonth) ==
  IF lunarMonth <= 1 THEN 0
  ELSE lunarMonthOffset(y, lunarMonth - 1) + getMonthDays(y, lunarMonth - 1)

\* daysInMonth of the carry loop (February always has 28 days)
solarDaysInMonth(solarMonth) ==
  IF solarMonth = 2 THEN 28
  ELSE IF solarMonth \in {4, 6, 9, 11} THEN 30 ELSE 31

\* while (solarDay > 28) { ... }
RECURSIVE carrySolarDays(_, _, _)
carrySolarDays(lunarYear, solarMonth, solarDay) ==
  IF solarDay > 28 /\ solarDay > solarDaysInMonth(solarMonth)
  THEN IF solarMonth + 1 > 12
       THEN carrySolarDays(lunarYear + 1, 1,
                           solarDay - solarDaysInMonth(solarMonth))
       ELSE carrySolarDays(lunarYear, solarMonth + 1,
                           solarDay - solarDaysInMonth(solarMonth))
  ELSE [year |-> lunarYear, month |-> solarMonth, day |-> solarDay]

lunarToSolar(lunarYear, lunarMonth, lunarDay) ==
  Only({ carrySolarDays(lunarYear, ny[1], solarDay) :
           ny \in {lunarAnchor(lunarYear)},
           solarDay \in {lunarAnchor(lunarYear)[2]
                           + lunarMonthOffset(lunarYear, lunarMonth)
                           + lunarDay - 1} })

\* ---------------------------------------------------------------------
\* The birth form: field values are strings, read with parseInt
\* ---------------------------------------------------------------------
\* a string is a sequence of one-character strings
DigitChars == <<"0", "1", "2", "3", "4", "5", "6", "7", "8", "9">>

isDigit(c) == \E i \in 1..10 : DigitChars[i] = c

digitValue(c) == (CHOOSE i \in 1..10 : DigitChars[i] = c) - 1

\* the decimal digits of n >= 0
RECURSIVE digitsOf(_)
digitsOf(n) ==
  IF n < 10 THEN <<DigitChars[n + 1]>>
  ELSE Append(digitsOf(n \div 10), DigitChars[(n % 10) + 1])

\* the value of a field holding the number n
textOf(n) == IF n < 0 THEN <<"-">> \o digitsOf(0 - n) ELSE digitsOf(n)

\* NaN, and a number n, as returned by parseInt
NaN == [nan |-> TRUE, n |-> 0]
Num(n) == [nan |-> FALSE, n |-> n]

\* parseInt: the index of the first character that is not white space
RECURSIVE skipSpaces(_, _)
skipSpaces(s, i) ==
  IF i <= Len(s) /\ s[i] = " " THEN skipSpaces(s, i + 1) ELSE i

\* parseInt: the value of the digits from index i on, up to the first
\* character that is not a digit
RECURSIVE parseDigits(_, _, _)
parseDigits(s, i, acc) ==
  IF i <= Len(s) /\ isDigit(s[i])
  THEN parseDigits(s, i + 1, acc * 10 + digitValue(s[i]))
  ELSE acc

\* parseInt(s) for a string without a 0x prefix: white space, a sign, then
\* digits; NaN without a digit
parseInt(s) ==
  Only({
    LET j == IF i <= Len(s) /\ s[i] \in {"-", "+"} THEN i + 1 ELSE i
    IN  IF j <= Len(s) /\ isDigit(s[j])
        THEN IF s[i] = "-" THEN Num(0 - parseDigits(s, j, 0))
             ELSE Num(parseDigits(s, j, 0))
        ELSE NaN :
      i \in {skipSpaces(s, 1)} })

\* !year || year < 1900 || year > 2100
yearRejected(y) == y.nan \/ y.n = 0 \/ y.n < MinYear \/ y.n > MaxYear

\* what calcBazi passes to calcBaziPillars and hands to renderBazi
rendered(solarYear, solarMonth, solarDay, hourIdx, g, chart, calendarType) ==
  [called |-> [year |-> solarYear, month |-> solarMonth, day |-> solarDay,
               hour |-> hourIdx, gender |-> g],
   chart |-> chart,
   calendarType |-> calendarType]

\* js/bazi.js calcBazi, after the year check (no calendarType field is
\* read; "solar" stands for the absent result.calendarType)
calcBazi(f) ==
  Only({ rendered(y, m, d, h, f.gender,
                  calcBaziPillars(y, m, d, h, f.gender), "solar") :
           y \in {parseInt(f.birthYear).n},
           m \in {parseInt(f.birthMonth).n},
           d \in {parseInt(f.birthDay).n},
           h \in {parseInt(f.birthHour).n} })

\* calcBazi of the later revision, after the year check: a lunar date is
\* converted first
calcBaziV2(f) ==
  Only({
    Only({ rendered(c.year, c.month, c.day, h, f.gender,
                    calcBaziPillarsV2(c.year, c.month, c.day, h, f.gender),
                    f.calendarType) :
             c \in {IF f.calendarType = "lunar" THEN lunarToSolar(y, m, d)
                    ELSE [year |-> y, month |-> m, day |-> d]} }) :
      y \in {parseInt(f.birthYear).n},
      m \in {parseInt(f.birthMonth).n},
      d \in {parseInt(f.birthDay).n},
      h \in {parseInt(f.birthHour).n} })

\* ---------------------------------------------------------------------
\* The iteration of calcSolarTerm
\* ---------------------------------------------------------------------
\* for (let i = 0; i < 50; i++)
MaxIterations == 50

\* a termIndex that ANGLES has no entry for (targetAngle is undefined and
\* diff is NaN in every iteration)
NotATermIndex == 24

\* the value of i at which Math.abs(diff) < 0.0001 first holds, for the
\* sectional terms (termIndex 0, 2, ..., 22) of the years 1899..2101, one
\* row per year (the smallest distance of |diff| from 0.0001 in any
\* iteration is 2.5e-8 degrees, far above the rounding error of a double)
solarTermIterations == <<
  <<4, 4, 3, 2, 3, 4, 4, 4, 3, 2, 3, 4>>,
  <<4, 4, 3, 2, 3, 4, 4, 4, 3, 2, 3, 4>>,
  <<4, 4, 3, 2, 3, 4, 4, 4, 3, 2, 3, 4>>,
  <<4, 4, 3, 2, 3, 4, 4, 4, 3, 2, 3, 4>>,
  <<4, 4, 3, 2, 3, 4, 4, 4, 3, 2, 3, 4>>,
  <<4, 4, 3, 2, 3, 4, 4, 4, 3, 2, 3, 4>>,
  <<4, 4, 3, 2, 3, 4, 4, 4, 3, 2, 3, 4>>,
  <<4, 4, 3, 2, 3, 4, 4, 4, 3, 2, 3, 4>>,
  <<4, 4, 3, 2, 3, 4, 4, 4, 3, 2, 3, 4>>,
  <<4, 4, 3, 2, 3, 4, 4, 4, 3, 2, 3, 4>>,
  <<4, 4, 3, 2, 3, 4, 4, 4, 3, 2, 3, 4>>,
  <<4, 4, 3, 2, 3, 4, 4, 4, 3, 2, 3, 4>>,
  <<4, 4, 3, 2, 3, 4, 4, 4, 3, 2, 3, 4>>,
  <<4, 4, 3, 2, 3, 4, 4, 4, 3, 2, 3, 4>>,
  <<4, 4, 3, 2, 3, 4, 4, 4, 3, 2, 3, 4>>,
  <<4, 4, 3, 2, 3, 4, 4, 4, 3, 2, 3, 4>>,
  <<4, 4, 3, 2, 3, 4, 4, 4, 3, 2, 3, 4>>,
  <<4, 4, 3, 2, 3, 4, 4, 4, 3, 2, 3, 4>>,
  <<4, 4, 3, 2, 3, 4, 4, 4, 3, 2, 3, 4>>,
  <<4, 4, 3, 2, 3, 4, 4, 4, 3, 2, 3, 4>>,
  <<4, 4, 3, 2, 3, 4, 4, 4, 3, 2, 3, 4>>,
  <<4, 4, 3, 2, 3, 4, 4, 4, 3, 2, 3, 4>>,
  <<4, 4, 3, 2, 3, 4, 4, 4, 3, 2, 3, 4>>,
  <<4, 4, 3, 2, 3, 4, 4, 4, 3, 2, 3, 4>>,
  <<4, 4, 3, 2, 3, 4, 4, 4, 3, 2, 3, 4>>,
  <<4, 4, 3, 2, 3, 4, 4, 4, 3, 2, 3, 4>>,
  <<4, 4, 3, 2, 3, 4, 4, 4, 3, 2, 3, 4>>,
  <<4, 4, 3, 2, 3, 4, 4, 4, 3, 2, 3, 4>>,
  <<4, 4, 3, 2, 3, 4, 4, 4, 3, 2, 3, 4>>,
  <<4, 4, 3, 2, 3, 4, 4, 4, 3, 2, 3, 4>>,
  <<4, 3, 3, 2, 3, 4, 4, 4, 3, 2, 3, 4>>,
  <<4, 3, 3, 2, 3, 4, 4, 4, 3, 2, 3, 4>>,
  <<4, 3, 3, 2, 3, 3, 4, 4, 3, 2, 3, 4>>,
  <<4, 3, 3, 2, 3, 3, 4, 4, 3, 2, 3, 4>>,
  <<4, 3, 3, 2, 3, 3, 4, 4, 3, 2, 3, 4>>,
  <<4, 3, 3, 2, 3, 3, 4, 4, 3, 2, 3, 4>>,
  <<4, 3, 3, 2, 3, 3, 4, 4, 3, 2, 3, 4>>,
  <<4, 3, 3, 2, 3, 3, 4, 4, 3, 2, 3, 4>>,
  <<4, 3, 3, 2, 3, 3, 4, 4, 3, 2, 3, 4>>,
  <<4, 3, 3, 2, 3, 3, 4, 4, 3, 2, 3, 4>>,
  <<4, 3, 3, 2, 3, 3, 4, 4, 3, 2, 3, 4>>,
  <<4, 3, 3, 2, 3, 3, 4, 4, 3, 2, 3, 4>>,
  <<4, 3, 3, 2, 3, 3, 4, 4, 3, 2, 3, 4>>,
  <<4, 3, 3, 2, 3, 3, 4, 4, 3, 2, 3, 4>>,
  <<4, 3, 3, 2, 3, 3, 4, 4, 3, 2, 3, 4>>,
  <<4, 3, 3, 2, 3, 3, 4, 4, 3, 2, 3, 4>>,
  <<4, 3, 3, 2, 3, 3, 4, 4, 3, 2, 3, 4>>,
  <<4, 3, 3, 2, 3, 3, 4, 4, 3, 2, 3, 4>>,
  <<4, 3, 3, 2, 3, 3, 4, 4, 3, 2, 3, 4>>,
  <<4, 3, 3, 2, 3, 3, 4, 4, 3, 2, 3, 4>>,
  <<4, 3, 3, 2, 3, 3, 4, 4, 3, 2, 3, 4>>,
  <<4, 3, 3, 2, 3, 3, 4, 4, 3, 2, 3, 4>>,
  <<4, 3, 3, 2, 3, 3, 4, 4, 3, 2, 3, 4>>,
  <<4, 3, 3, 2, 3, 3, 4, 4, 3, 2, 3, 4>>,
  <<4, 3, 3, 2, 3, 3, 4, 4, 3, 2, 3, 4>>,
  <<4, 3, 3, 2, 3, 3, 4, 4, 3, 2, 3, 4>>,
  <<4, 3, 3, 2, 3, 3, 4, 4, 3, 2, 3, 4>>,
  <<4, 3, 3, 2, 3, 3, 4, 4, 3, 2, 3, 4>>,
  <<4, 3, 3, 2, 3, 3, 4, 4, 3, 2, 3, 4>>,
  <<4, 3, 3, 2, 3, 3, 4, 4, 3, 2, 3, 4>>,
  <<4, 3, 3, 2, 3, 3, 4, 4, 3, 2, 3, 4>>,
  <<4, 3, 3, 2, 3, 3, 4, 4, 3, 2, 3, 4>>,
  <<4, 3, 3, 2, 3, 3, 4, 4, 3, 2, 3, 4>>,
  <<4, 3, 3, 2, 3, 3, 4, 4, 3, 2, 3, 4>>,
  <<4, 3, 3, 2, 3, 3, 4, 4, 3, 2, 3, 4>>,
  <<4, 3, 3, 2, 3, 3, 4, 4, 3, 2, 3, 4>>,
  <<4, 3, 3, 2, 3, 3, 4, 4, 3, 2, 3, 4>>,
  <<4, 3, 3, 2, 3, 3, 4, 4, 3, 2, 3, 4>>,
  <<4, 3, 3, 2, 3, 3, 4, 4, 3, 2, 3, 4>>,
  <<4, 3, 3, 2, 3, 3, 4, 4, 3, 1, 3, 4>>,
  <<4, 3, 3, 2, 3, 3, 4, 4, 3, 1, 3, 4>>,
  <<4, 3, 3, 2, 3, 3, 4, 4, 3, 1, 3, 4>>,
  <<4, 3, 3, 2, 3, 3, 4, 4, 3, 1, 3, 4>>,
  <<4, 3, 3, 2, 3, 3, 4, 4, 3, 2, 3, 4>>,
  <<4, 3, 3, 2, 3, 3, 4, 4, 3, 2, 3, 4>>,
  <<4, 3, 3, 2, 3, 3, 4, 4, 3, 2, 3, 4>>,
  <<4, 3, 3, 2, 3, 3, 4, 4, 3, 2, 3, 4>>,
  <<4, 3, 3, 2, 3, 3, 4, 4, 3, 2, 3, 4>>,
  <<4, 3, 3, 2, 3, 3, 4, 4, 3, 2, 3, 4>>,
  <<4, 3, 3, 2, 3, 3, 4, 4, 3, 2, 3, 4>>,
  <<4, 3, 3, 2, 3, 3, 4, 4, 3, 2, 3, 4>>,
  <<4, 3, 3, 2, 3, 3, 4, 4, 3, 2, 3, 4>>,
  <<4, 3, 3, 2, 3, 3, 4, 4, 3, 2, 3, 4>>,
  <<4, 3, 3, 2, 3, 3, 4, 4, 3, 2, 3, 4>>,
  <<4, 3, 3, 2, 3, 3, 4, 4, 3, 2, 3, 4>>,
  <<4, 3, 3, 2, 3, 3, 4, 4, 3, 2, 3, 4>>,
  <<4, 3, 3, 2, 3, 3, 4, 4, 3, 2, 3, 4>>,
  <<4, 3, 3, 2, 3, 3, 4, 4, 3, 2, 3, 4>>,
  <<4, 3, 3, 2, 3, 3, 4, 4, 3, 2, 3, 4>>,
  <<4, 3, 3, 2, 3, 3, 4, 4, 3, 2, 3, 4>>,
  <<4, 3, 3, 2, 3, 3, 4, 4, 3, 2, 3, 4>>,
  <<4, 3, 3, 2, 3, 3, 4, 4, 3, 2, 3, 4>>,
  <<4, 3, 3, 2, 3, 3, 4, 4, 3, 2, 3, 4>>,
  <<4, 3, 3, 2, 3, 3, 4, 4, 3, 2, 3, 4>>,
  <<4, 3, 3, 2, 3, 3, 4, 4, 3, 2, 3, 4>>,
  <<4, 3, 3, 2, 3, 3, 4, 4, 3, 2, 3, 4>>,
  <<4, 3, 3, 2, 3, 3, 4, 4, 3, 2, 3, 4>>,
  <<4, 3, 3, 1, 3, 3, 4, 4, 3, 2, 3, 4>>,
  <<4, 3, 3, 1, 3, 3, 4, 4, 3, 2, 3, 4>>,
  <<4, 3, 3, 1, 3, 3, 4, 4, 3, 2, 3, 4>>,
  <<4, 3, 3, 1, 3, 3, 4, 4, 3, 2, 3, 4>>,
  <<4, 3, 3, 1, 3, 3, 4, 4, 3, 2, 3, 4>>,
  <<4, 3, 3, 1, 3, 3, 4, 4, 3, 2, 3, 4>>,
  <<4, 3, 3, 1, 3, 3, 4, 4, 3, 2, 3, 4>>,
  <<4, 3, 3, 1, 3, 3, 4, 4, 3, 2, 3, 4>>,
  <<4, 3, 3, 1, 3, 3, 4, 4, 3, 2, 3, 4>>,
  <<4, 3, 3, 2, 3, 3, 4, 4, 3, 2, 3, 4>>,
  <<4, 3, 3, 2, 3, 3, 4, 4, 3, 2, 3, 4>>,
  <<4, 3, 3, 2, 3, 3, 4, 4, 3, 2, 3, 4>>,
  <<4, 3, 3, 2, 3, 3, 4, 4, 3, 2, 3, 4>>,
  <<4, 3, 3, 2, 3, 3, 4, 4, 3, 2, 3, 4>>,
  <<4, 3, 3, 2, 3, 3, 4, 4, 3, 2, 3, 4>>,
  <<4, 3, 3, 2, 3, 3, 4, 4, 3, 2, 3, 4>>,
  <<4, 3, 3, 2, 3, 3, 4, 4, 3, 2, 3, 4>>,
  <<4, 3, 3, 2, 3, 3, 4, 4, 3, 2, 3, 4>>,
  <<4, 3, 3, 2, 3, 3, 4, 4, 3, 2, 3, 4>>,
  <<4, 3, 3, 2, 3, 3, 4, 4, 3, 2, 3, 4>>,
  <<4, 3, 3, 2, 3, 3, 4, 4, 3, 2, 3, 4>>,
  <<4, 3, 3, 2, 3, 3, 4, 4, 3, 2, 3, 4>>,
  <<4, 3, 3, 2, 3, 3, 4, 4, 3, 2, 3, 4>>,
  <<4, 3, 3, 2, 3, 3, 4, 4, 3, 2, 3, 4>>,
  <<4, 3, 3, 2, 3, 3, 4, 4, 3, 2, 3, 4>>,
  <<4, 3, 3, 2, 3, 3, 4, 4, 3, 2, 3, 4>>,
  <<4, 3, 3, 2, 3, 3, 4, 4, 3, 2, 3, 4>>,
  <<4, 3, 3, 2, 3, 3, 4, 4, 3, 2, 3, 4>>,
  <<4, 3, 3, 2, 3, 3, 4, 4, 3, 2, 3, 4>>,
  <<4, 3, 3, 2, 3, 3, 4, 4, 3, 2, 3, 4>>,
  <<4, 3, 3, 2, 3, 3, 4, 4, 3, 2, 3, 4>>,
  <<4, 3, 3, 2, 3, 3, 4, 4, 3, 2, 3, 4>>,
  <<4, 3, 3, 2, 3, 3, 4, 4, 3, 2, 3, 4>>,
  <<4, 3, 3, 2, 3, 3, 4, 4, 3, 2, 3, 4>>,
  <<4, 3, 3, 2, 3, 3, 4, 4, 3, 2, 3, 4>>,
  <<4, 3, 3, 2, 3, 3, 4, 4, 3, 2, 3, 4>>,
  <<4, 3, 3, 2, 3, 3, 4, 4, 3, 2, 3, 4>>,
  <<4, 3, 3, 2, 3, 3, 4, 4, 3, 2, 3, 4>>,
  <<4, 3, 3, 2, 3, 3, 4, 4, 3, 2, 3, 4>>,
  <<4, 3, 3, 2, 3, 3, 4, 4, 3, 2, 3, 4>>,
  <<4, 3, 3, 2, 3, 3, 4, 4, 3, 2, 3, 4>>,
  <<4, 3, 3, 2, 3, 3, 4, 4, 3, 2, 3, 4>>,
  <<4, 3, 3, 2, 3, 3, 4, 4, 3, 2, 3, 4>>,
  <<4, 3, 3, 2, 3, 3, 4, 4, 3, 2, 3, 4>>,
  <<4, 3, 3, 2, 3, 3, 4, 4, 3, 2, 3, 4>>,
  <<4, 3, 3, 2, 3, 3, 4, 4, 3, 2, 3, 4>>,
  <<4, 3, 3, 2, 3, 3, 4, 4, 3, 2, 3, 4>>,
  <<4, 3, 3, 2, 3, 3, 4, 4, 3, 2, 3, 4>>,
  <<4, 3, 3, 2, 3, 3, 4, 4, 3, 2, 3, 4>>,
  <<4, 3, 3, 2, 3, 3, 4, 4, 3, 2, 3, 4>>,
  <<4, 3, 3, 2, 3, 3, 4, 4, 3, 2, 3, 4>>,
  <<4, 3, 3, 2, 3, 3, 4, 4, 3, 2, 3, 4>>,
  <<4, 3, 3, 2, 3, 3, 4, 4, 3, 2, 3, 4>>,
  <<4, 3, 3, 2, 3, 3, 4, 4, 3, 2, 3, 4>>,
  <<4, 3, 3, 2, 3, 3, 4, 4, 3, 2, 3, 4>>,
  <<4, 3, 3, 2, 3, 3, 4, 4, 3, 2, 3, 4>>,
  <<4, 3, 3, 2, 3, 3, 4, 4, 3, 2, 3, 4>>,
  <<4, 3, 3, 2, 3, 3, 4, 4, 3, 2, 3, 4>>,
  <<4, 3, 3, 2, 3, 3, 4, 4, 3, 2, 3, 4>>,
  <<4, 3, 3, 2, 3, 3, 4, 4, 3, 2, 3, 4>>,
  <<4, 3, 3, 2, 3, 3, 4, 4, 3, 2, 3, 4>>,
  <<4, 3, 3, 2, 3, 3, 4, 4, 3, 2, 3, 4>>,
  <<4, 3, 3, 2, 3, 3, 4, 4, 3, 2, 3, 4>>,
  <<4, 3, 3, 2, 3, 3, 4, 4, 3, 2, 3, 4>>,
  <<4, 3, 3, 2, 3, 3, 4, 4, 3, 2, 3, 4>>,
  <<4, 3, 3, 2, 3, 3, 4, 4, 3, 2, 3, 4>>,
  <<4, 3, 3, 2, 3, 3, 4, 4, 3, 2, 3, 4>>,
  <<4, 3, 3, 2, 3, 3, 4, 4, 3, 2, 3, 4>>,
  <<4, 3, 3, 2, 3, 3, 4, 4, 3, 2, 3, 4>>,
  <<4, 3, 3, 2, 3, 3, 4, 4, 3, 2, 3, 4>>,
  <<4, 3, 3, 2, 3, 3, 4, 4, 3, 2, 3, 4>>,
  <<4, 3, 3, 2, 3, 3, 4, 4, 3, 2, 3, 4>>,
  <<4, 3, 3, 2, 3, 3, 4, 4, 3, 2, 3, 4>>,
  <<4, 3, 3, 2, 3, 3, 4, 4, 3, 2, 3, 4>>,
  <<4, 3, 3, 2, 3, 3, 4, 4, 3, 2, 3, 4>>,
  <<4, 3, 3, 2, 3, 3, 4, 4, 3, 2, 3, 4>>,
  <<4, 3, 3, 2, 3, 3, 4, 4, 3, 2, 3, 4>>,
  <<4, 3, 3, 2, 3, 3, 4, 4, 3, 2, 3, 4>>,
  <<4, 3, 3, 2, 3, 3, 4, 4, 3, 2, 3, 4>>,
  <<4, 3, 3, 2, 3, 3, 4, 4, 3, 2, 3, 4>>,
  <<4, 3, 3, 2, 3, 3, 4, 4, 3, 2, 3, 4>>,
  <<4, 3, 3, 2, 3, 3, 4, 4, 3, 2, 3, 4>>,
  <<4, 3, 3, 2, 3, 3, 4, 4, 3, 2, 3, 4>>,
  <<4, 3, 3, 2, 3, 3, 4, 4, 3, 2, 3, 4>>,
  <<4, 3, 3, 2, 3, 3, 4, 4, 3, 2, 3, 4>>,
  <<4, 3, 3, 2, 3, 3, 4, 4, 3, 2, 3, 4>>,
  <<4, 3, 3, 2, 3, 3, 4, 4, 3, 2, 3, 4>>,
  <<4, 3, 3, 2, 3, 3, 4, 4, 3, 2, 3, 4>>,
  <<4, 3, 3, 2, 3, 3, 4, 4, 3, 2, 3, 4>>,
  <<4, 3, 3, 2, 3, 3, 4, 4, 3, 2, 3, 4>>,
  <<4, 3, 3, 2, 3, 3, 4, 4, 3, 2, 3, 4>>,
  <<4, 3, 3, 2, 3, 3, 4, 4, 3, 2, 3, 4>>,
  <<4, 3, 3, 2, 3, 3, 4, 4, 3, 2, 3, 4>>,
  <<4, 3, 3, 2, 3, 3, 4, 4, 3, 2, 3, 4>>,
  <<4, 3, 3, 2, 3, 3, 4, 4, 3, 2, 3, 4>>,
  <<4, 3, 3, 2, 3, 3, 4, 4, 3, 2, 3, 4>>,
  <<4, 3, 3, 2, 3, 3, 4, 4, 3, 2, 3, 4>>,
  <<4, 3, 3, 2, 3, 3, 4, 4, 3, 2, 3, 4>>,
  <<4, 3, 3, 2, 3, 3, 4, 4, 3, 2, 3, 4>>,
  <<4, 3, 3, 2, 3, 3, 4, 4, 3, 2, 3, 4>>,
  <<4, 3, 3, 2, 3, 3, 4, 4, 3, 2, 3, 4>>,
  <<4, 3, 3, 2, 3, 3, 4, 4, 3, 2, 3, 4>>,
  <<4, 3, 3, 2, 3, 3, 4, 4, 3, 2, 3, 4>>,
  <<4, 3, 3, 2, 3, 3, 4, 4, 3, 2, 3, 4>>,
  <<4, 3, 3, 2, 3, 3, 4, 4, 3, 2, 3, 4>>,
  <<4, 3, 3, 2, 3, 3, 4, 4, 3, 2, 3, 4>> >>

\* Math.abs(diff) < 0.0001 in iteration i (false for NaN)
diffIsSmall(year, termIndex, i) ==
  /\ termIndex \in 0..23
  /\ i >= solarTermIterations[year - MinYear + 2][(termIndex \div 2) + 1]

\* the loop: the value of i when it is left, and whether by break
RECURSIVE newtonLoop(_, _, _)
newtonLoop(year, termIndex, i) ==
  IF i >= MaxIterations THEN [i |-> i, broke |-> FALSE]
  ELSE IF diffIsSmall(year, termIndex, i) THEN [i |-> i, broke |-> TRUE]
  ELSE newtonLoop(year, termIndex, i + 1)

\* the date built from a jde that is NaN
NaNDate == [year |-> "NaN", month |-> "NaN", day |-> "NaN",
            hour |-> "NaN", minute |-> "NaN"]

\* calcSolarTerm with the course of its loop: the function has no throw,
\* whatever the loop did the date built from jde is returned
calcSolarTermRun(year, termIndex) ==
  Only({ [iterations |-> loop.i,
          converged |-> loop.broke,
          outcome |-> "return",
          date |-> IF termIndex \in 0..23 THEN calcSolarTerm(year, termIndex)
                   ELSE NaNDate] :
           loop \in {newtonLoop(year, termIndex, 0)} })

\* ---------------------------------------------------------------------
\* Void branches (getKongWang)
\* ---------------------------------------------------------------------
\* KONGWANG_MAP: <<stem, branch, void branch, void branch>> for each key
\* stem + branch, the characters by their index in STEMS and BRANCHES
KONGWANG_MAP == {
    <<0, 0, 10, 11>>, <<0, 2, 0, 1>>, <<0, 4, 2, 3>>, <<0, 6, 4, 5>>, <<0, 8, 6, 7>>, <<0, 10, 8, 9>>,
    <<1, 1, 10, 11>>, <<1, 3, 0, 1>>, <<1, 5, 2, 3>>, <<1, 7, 4, 5>>, <<1, 9, 6, 7>>, <<1, 11, 8, 9>>,
    <<2, 2, 10, 11>>, <<2, 0, 0, 1>>, <<2, 4, 2, 3>>, <<2, 6, 4, 5>>, <<2, 8, 6, 7>>, <<2, 10, 8, 9>>,
    <<3, 3, 10, 11>>, <<3, 1, 0, 1>>, <<3, 5, 2, 3>>, <<3, 7, 4, 5>>, <<3, 9, 6, 7>>, <<3, 11, 8, 9>>,
    <<4, 4, 10, 11>>, <<4, 2, 0, 1>>, <<4, 0, 2, 3>>, <<4, 10, 4, 5>>, <<4, 8, 6, 7>>, <<4, 6, 8, 9>>,
    <<5, 5, 10, 11>>, <<5, 3, 0, 1>>, <<5, 1, 2, 3>>, <<5, 11, 4, 5>>, <<5, 9, 6, 7>>, <<5, 7, 8, 9>>,
    <<6, 8, 10, 11>>, <<6, 6, 0, 1>>, <<6, 4, 2, 3>>, <<6, 0, 4, 5>>, <<6, 2, 6, 7>>, <<6, 10, 8, 9>>,
    <<7, 9, 10, 11>>, <<7, 7, 0, 1>>, <<7, 5, 2, 3>>, <<7, 11, 4, 5>>, <<7, 3, 6, 7>>, <<7, 1, 8, 9>>,
    <<8, 10, 10, 11>>, <<8, 8, 0, 1>>, <<8, 6, 2, 3>>, <<8, 4, 4, 5>>, <<8, 2, 6, 7>>, <<8, 0, 8, 9>>,
    <<9, 11, 10, 11>>, <<9, 9, 0, 1>>, <<9, 7, 2, 3>>, <<9, 5, 4, 5>>, <<9, 3, 6, 7>>, <<9, 1, 8, 9>> }

\* ['—', '—']
KongWangPlaceholder == <<NotABranch, NotABranch>>

\* KONGWANG_MAP[STEMS[stemIdx] + BRANCHES[branchIdx]] || ['—', '—']
kongWangOf(stemIdx, branchIdx) ==
  IF \E e \in KONGWANG_MAP : e[1] = stemIdx /\ e[2] = branchIdx
  THEN Only({ <<e[3], e[4]>> :
                e \in {CHOOSE e \in KONGWANG_MAP :
                         e[1] = stemIdx /\ e[2] = branchIdx} })
  ELSE KongWangPlaceholder

\* getKongWang: the void branches looked up under the decade's head
getKongWang(stem, branch) ==
  LET stemIdx == stem
      branchIdx == branch
      xunshouIdx == JsRem(stemIdx * 12 + branchIdx, 60)
      xunshouStemIdx == xunshouIdx \div 10
      xunshouBranchIdx == JsRem(xunshouStemIdx * 10, 12)
  IN  kongWangOf(xunshouStemIdx, xunshouBranchIdx)

\* ---------------------------------------------------------------------
\* The twelve stages (getChangseng)
\* ---------------------------------------------------------------------
\* CHANGSHENG_ORDER: changsheng 长生, muyu 沐浴, guandai 冠带, linguan 临官,
\* diwang 帝旺, shuai 衰, bing 病, si 死, mu 墓, jue 绝, tai 胎, yang 养
CHANGSHENG_ORDER ==
  Arr(<<"changsheng", "muyu", "guandai", "linguan", "diwang", "shuai",
        "bing", "si", "mu", "jue", "tai", "yang">>)

\* CHANGSHENG_START, the stems by their index in STEMS
CHANGSHENG_START == Arr(<<11, 5, 3, 9, 3, 9, 9, 11, 9, 3>>)

\* getChangseng ("none": '—')
getChangseng(stem, branch) ==
  IF stem \notin 0..9 \/ CHANGSHENG_START[stem] = 0 THEN "none"
  ELSE IF branch \notin 0..11 THEN "none"
  ELSE CHANGSHENG_ORDER[JsRem(branch - CHANGSHENG_START[stem] + 12, 12)]

\* ---------------------------------------------------------------------
\* The life trigram (js/fengshui-calc.js calcMingGua)
\* ---------------------------------------------------------------------
\* guaInfo[1..9]: the trigram's name, group (east or west four), element
\* and directions (N, S, E, W, NE, NW, SE, SW)
guaInfo ==
  <<[name |-> "kan", type |-> "east", element |-> "water",
     dirs |-> <<"N", "S", "SE", "E">>],
    [name |-> "kun", type |-> "west", element |-> "earth",
     dirs |-> <<"SW", "NE", "NW", "W">>],
    [name |-> "zhen", type |-> "east", element |-> "wood",
     dirs |-> <<"E", "SE", "N", "S">>],
    [name |-> "xun", type |-> "east", element |-> "wood",
     dirs |-> <<"SE", "E", "S", "N">>],
    [name |-> "qian", type |-> "west", element |-> "metal",
     dirs |-> <<"NW", "SW", "W", "NE">>],
    [name |-> "qian", type |-> "west", element |-> "metal",
     dirs |-> <<"NW", "SW", "W", "NE">>],
    [name |-> "dui", type |-> "west", element |-> "metal",
     dirs |-> <<"W", "NW", "NE", "SW">>],
    [name |-> "gen", type |-> "west", element |-> "earth",
     dirs |-> <<"NE", "NW", "SW", "W">>],
    [name |-> "li", type |-> "east", element |-> "fire",
     dirs |-> <<"S", "N", "E", "SE">>]>>

\* guaNum of calcMingGua
guaNumOf(year, g) ==
  LET lastDigit == JsRem(year, 10)
      n == IF g = "m" THEN JsRem(100 - lastDigit, 9)
                      ELSE JsRem(lastDigit + 5, 9)
  IN  IF n = 0 THEN 5 ELSE n

calcMingGua(year, g) ==
  Only({ [guaNum |-> guaNum,
          gua |-> info.name,
          name |-> info.name,
          type |-> info.type,
          element |-> info.element,
          luckyDirs |-> SubSeq(info.dirs, 1, 2),
          unluckyDirs |-> SubSeq(info.dirs, 3, 4)] :
           guaNum \in {guaNumOf(year, g)},
           info \in {IF guaNumOf(year, g) \in 1..9
                     THEN guaInfo[guaNumOf(year, g)] ELSE guaInfo[5]} })

\* ---------------------------------------------------------------------
\* The grid of flying stars (js/fengshui-calc.js renderFlyingStars)
\* ---------------------------------------------------------------------
\* the star of a grid position for which stars.find returns undefined
NoCell == 0

\* stars.find(s => s.row === row && s.col === col): the index of the first
\* palace at the position, 9 when there is none
RECURSIVE findCell(_, _, _, _)
findCell(stars, row, col, i) ==
  IF i > 8 THEN 9
  ELSE IF stars[i].row = row /\ stars[i].col = col THEN i
  ELSE findCell(stars, row, col, i + 1)

\* renderFlyingStars: the star shown at each position of the 3x3 grid
\* (NoCell: no cell is written for the position)
renderFlyingStars(year) ==
  Only({ [c \in (0..2) \X (0..2) |->
            IF findCell(stars, c[1], c[2], 0) = 9 THEN NoCell
            ELSE stars[findCell(stars, c[1], c[2], 0)].star] :
           stars \in {calcFlyingStars(year)} })

\* ---------------------------------------------------------------------
\* The star map of the Ziwei chart (js/ziwei.js)
\* ---------------------------------------------------------------------
\* ZIWEI_STARS: ziwei 紫微, tianji 天机, taiyang 太阳, wuqu 武曲, tiantong 天同,
\* lianzhen 廉贞, tianfu 天府, taiyin 太阴, tanlang 贪狼, jumen 巨门,
\* tianxiang 天相, tianliang 天梁, qisha 七杀, pojun 破军
ZIWEI_STARS ==
  <<"ziwei", "tianji", "taiyang", "wuqu", "tiantong", "lianzhen", "tianfu",
    "taiyin", "tanlang", "jumen", "tianxiang", "tianliang", "qisha", "pojun">>

\* the pushes of distributeStars in their order: the star and its offset
\* from ziweiIdx
starPushes ==
  <<[star |-> "tianji", offset |-> 2], [star |-> "taiyang", offset |-> 4],
    [star |-> "wuqu", offset |-> 6], [star |-> "tiantong", offset |-> 8],
    [star |-> "lianzhen", offset |-> 10], [star |-> "tianfu", offset |-> 5],
    [star |-> "taiyin", offset |-> 3], [star |-> "tanlang", offset |-> 1],
    [star |-> "jumen", offset |-> 7], [star |-> "tianxiang", offset |-> 9],
    [star |-> "tianliang", offset |-> 11], [star |-> "qisha", offset |-> 4],
    [star |-> "pojun", offset |-> 10]>>

\* map[k] = map[k] || []; map[k].push(star)
pushStar(map, k, star) ==
  [x \in (DOMAIN map) \cup {k} |->
     IF x = k
     THEN Append(IF k \in DOMAIN map THEN map[k] ELSE <<>>, star)
     ELSE map[x]]

\* the pushes from the i-th on
RECURSIVE pushStarsFrom(_, _, _)
pushStarsFrom(map, ziweiIdx, i) ==
  IF i > Len(starPushes) THEN map
  ELSE Only({ pushStarsFrom(next, ziweiIdx, i + 1) :
                next \in {pushStar(map,
                                   JsRem(ziweiIdx + starPushes[i].offset, 12),
                                   starPushes[i].star)} })

\* distributeStars: map[ziweiIdx] = ['紫微'], then the thirteen pushes
distributeStars(ziweiIdx, mingGongIdx, year, month, day) ==
  pushStarsFrom([k \in {ziweiIdx} |-> <<"ziwei">>], ziweiIdx, 1)

\* calcZiweiChart: the fields computed from the birth date and hour
\* (siHuaResult, daXian and the empty palaces do not enter the star map)
calcZiweiChart(year, month, day, hour, g) ==
  LET monthIdx == month - 1
      hourIdx == hour
      mingGongIdx == JsRem(12 - JsRem(hourIdx + monthIdx, 12) + 12, 12)
      ziweiIdx == JsRem(year + month + day + 14, 14)
  IN  [year |-> year, month |-> month, day |-> day, hour |-> hour,
       gender |-> g,
       stemIdx |-> JsMod(year - 4, 10),
       mingGongIdx |-> mingGongIdx,
       shenGongIdx |-> JsRem(mingGongIdx + monthIdx, 12),
       ziweiIdx |-> ziweiIdx,
       starPalaceMap |-> distributeStars(ziweiIdx, mingGongIdx, year, month,
                                         day)]

\* ---------------------------------------------------------------------
\* The yearly cycle of the first eight years (calcXiaoyun)
\* ---------------------------------------------------------------------
\* the index after k steps of  idx = (idx - 1 + n) % n
RECURSIVE stepBack(_, _, _)
stepBack(idx, n, k) ==
  IF k = 0 THEN idx ELSE JsRem(stepBack(idx, n, k - 1) - 1 + n, n)

\* calcXiaoyun: eight entries stepped back from the day stem and the hour
\* branch
calcXiaoyun(year, month, day, hourBranchIdx) ==
  Only({
    [i \in 0..7 |->
       Only({ [age |-> i + 1, stem |-> s, branch |-> b,
               stemIdx |-> s, branchIdx |-> b,
               stemEle |-> STEM_ELEMENTS[s],
               branchEle |-> BRANCH_ELEMENTS[b]] :
                s \in {stepBack(dayPillar.stemIdx, 10, i + 1)},
                b \in {stepBack(hourBranchIdx, 12, i + 1)} })] :
      dayPillar \in {getDayStemBranch(year, month, day)} })

\* ---------------------------------------------------------------------
\* The page as a state machine: the form inputs, the operation applied to
\* them and the value it returned
\* ---------------------------------------------------------------------
VARIABLES
  year, month, day,   \* the birth date entered
  hour,               \* the hour slot 0..11 (the clock hour for calcDaYunPrecise)
  minute,             \* the minute passed to calcDaYunPrecise
  gender,             \* "m" or "f"
  stemIdx,            \* the yearStemIdx passed to calcDaYunPrecise
  op,                 \* the operation that produced result ("input": none yet)
  result,             \* the value returned by op
  jieqiCache,         \* _jieqiCache: year -> the 12 sectional terms
  dayCount,           \* days from 2000-01-07 to the date entered (day walk)
  pair,               \* the two arguments of a function of two values
                      \* (stems, branches, or a year and a term index)
  form                \* the fields of the birth form read by calcBazi

vars == <<year, month, day, hour, minute, gender, stemIdx, op, result,
          jieqiCache, dayCount, pair, form>>

inputs == <<year, month, day, hour, minute, gender, stemIdx, dayCount,
            pair, form>>

NoResult == "none"
NoPair == <<>>
NoForm == <<>>
EmptyCache == [y \in {} |-> 0]

\* the valid Gregorian dates of a set of years
ValidDates(years) ==
  {t \in years \X (1..12) \X (1..31) : t[3] <= monthDays(t[1])[t[2] - 1]}

\* ---- getSolarTerms for every supported year --------------------------
InitTerms ==
  /\ year \in MinYear..MaxYear
  /\ month = 1 /\ day = 1 /\ hour = 0 /\ minute = 0 /\ gender = "m"
  /\ stemIdx = 0 /\ dayCount = 0
  /\ op = "input" /\ result = NoResult /\ jieqiCache = EmptyCache
  /\ pair = NoPair /\ form = NoForm

GetSolarTerms ==
  /\ op = "input"
  /\ op' = "getSolarTerms"
  /\ result' = getSolarTerms(year)
  /\ UNCHANGED <<inputs, jieqiCache>>

NextTerms == GetSolarTerms

SpecTerms == InitTerms /\ [][NextTerms]_vars

\* ---- the day walk: the date entered moves one calendar day at a time ---
RefYear == 2000

\* the results of the three day-pillar computations for a date:
\* getDayStemBranch, and the day pillar lines of calcBaziPillars in
\* js/bazi.js and in the later revision
dayPillarsOf(y, m, d) ==
  [stemBranch |-> getDayStemBranch(y, m, d),
   pillar     |-> dayPillarOf(floorJulianDay(y, m, d)),
   pillarV2   |-> dayPillarOf(getJulianDayV2(y, m, d))]

InitDay ==
  /\ year = RefYear /\ month = 1 /\ day = 7 /\ dayCount = 0
  /\ hour = 0 /\ minute = 0 /\ gender = "m" /\ stemIdx = 0
  /\ op = "dayPillar" /\ result = dayPillarsOf(RefYear, 1, 7)
  /\ jieqiCache = EmptyCache
  /\ pair = NoPair /\ form = NoForm

\* the calendar day after (y, m, d)
dayAfter(y, m, d) ==
  IF d < monthDays(y)[m - 1] THEN <<y, m, d + 1>>
  ELSE IF m < 12 THEN <<y, m + 1, 1>>
  ELSE <<y + 1, 1, 1>>

\* the calendar day before (y, m, d)
dayBefore(y, m, d) ==
  IF d > 1 THEN <<y, m, d - 1>>
  ELSE IF m > 1 THEN <<y, m - 1, monthDays(y)[m - 2]>>
  ELSE <<y - 1, 12, 31>>

MoveTo(t, n) ==
  /\ t[1] \in MinYear..MaxYear
  /\ year' = t[1] /\ month' = t[2] /\ day' = t[3]
  /\ dayCount' = n
  /\ result' = dayPillarsOf(t[1], t[2], t[3])
  /\ UNCHANGED <<hour, minute, gender, stemIdx, op, jieqiCache, pair, form>>

NextDay == dayCount >= 0 /\ MoveTo(dayAfter(year, month, day), dayCount + 1)

PrevDay == dayCount <= 0 /\ MoveTo(dayBefore(year, month, day), dayCount - 1)

NextOfDay == NextDay \/ PrevDay

SpecDay == InitDay /\ [][NextOfDay]_vars

\* ---- the chart for every date of some years ---------------------------
\* the years whose dates are entered: the two ends of the supported range
\* and the years RefYear .. RefYear + YearSpan
YearSpan == 1

ChartYears == {MinYear, MaxYear} \cup (RefYear..(RefYear + YearSpan))

InitChart ==
  /\ \E t \in ValidDates(ChartYears) :
       year = t[1] /\ month = t[2] /\ day = t[3]
  /\ hour \in 0..11
  /\ gender \in {"m", "f"}
  /\ minute = 0 /\ stemIdx = 0 /\ dayCount = 0
  /\ op = "input" /\ result = NoResult /\ jieqiCache = EmptyCache
  /\ pair = NoPair /\ form = NoForm

CalcBaziPillars ==
  /\ op = "input"
  /\ op' = "calcBaziPillars"
  /\ result' = calcBaziPillars(year, month, day, hour, gender)
  /\ UNCHANGED <<inputs, jieqiCache>>

CalcBaziPillarsV2 ==
  /\ op = "input"
  /\ op' = "calcBaziPillarsV2"
  /\ result' = calcBaziPillarsV2(year, month, day, hour, gender)
  /\ UNCHANGED <<inputs, jieqiCache>>

CalcBaziPillarsJieqi ==
  /\ op = "input"
  /\ op' = "calcBaziPillarsJieqi"
  /\ result' = calcBaziPillarsJieqi(jieqiCache, year, month, day, hour, gender)
  /\ jieqiCache' = getJieqi(jieqiCache, year).cache
  /\ UNCHANGED inputs

CalcXiaoyun ==
  /\ op = "input"
  /\ op' = "calcXiaoyun"
  /\ result' = calcXiaoyun(year, month, day, hour)
  /\ UNCHANGED <<inputs, jieqiCache>>

NextChart ==
  \/ CalcBaziPillars
  \/ CalcBaziPillarsV2
  \/ CalcBaziPillarsJieqi
  \/ CalcXiaoyun

SpecChart == InitChart /\ [][NextChart]_vars

\* ---- calcDaYunPrecise called with every year stem and either gender ----
\* the clock times (hour, minute) of birth passed to calcDaYunPrecise
ClockTimes == {<<0, 0>>, <<12, 30>>}

InitDaYun ==
  /\ \E t \in ValidDates(ChartYears) :
       year = t[1] /\ month = t[2] /\ day = t[3]
  /\ \E c \in ClockTimes : hour = c[1] /\ minute = c[2]
  /\ gender \in {"m", "f"}
  /\ stemIdx \in 0..9
  /\ dayCount = 0
  /\ op = "input" /\ result = NoResult /\ jieqiCache = EmptyCache
  /\ pair = NoPair /\ form = NoForm

CalcDaYunPrecise ==
  /\ op = "input"
  /\ op' = "calcDaYunPrecise"
  /\ result' = calcDaYunPrecise(year, month, day, hour, minute, gender, stemIdx)
  /\ UNCHANGED <<inputs, jieqiCache>>

\* the form passes an hour slot and no minute or stem: the chart is computed
\* for the inputs that are form inputs
FormInput == hour \in 0..11 /\ minute = 0 /\ stemIdx = 0

NextDaYun ==
  \/ CalcDaYunPrecise
  \/ (FormInput /\ CalcBaziPillars)
  \/ (FormInput /\ CalcBaziPillarsV2)

SpecDaYun == InitDaYun /\ [][NextDaYun]_vars

\* ---- getTenGod for every pair of characters ---------------------------
InitTenGod ==
  /\ pair \in (0..NotAStem) \X (0..NotAStem)
  /\ year = RefYear /\ month = 1 /\ day = 1 /\ hour = 0 /\ minute = 0
  /\ gender = "m" /\ stemIdx = 0 /\ dayCount = 0
  /\ op = "input" /\ result = NoResult /\ jieqiCache = EmptyCache
  /\ form = NoForm

GetTenGod ==
  /\ op = "input"
  /\ op' = "getTenGod"
  /\ result' = getTenGod(pair[1], pair[2])
  /\ UNCHANGED <<inputs, jieqiCache>>

NextTenGod == GetTenGod

SpecTenGod == InitTenGod /\ [][NextTenGod]_vars

\* ---- checkRelationship for every pair of branches ---------------------
InitRelation ==
  /\ pair \in (0..NotABranch) \X (0..NotABranch)
  /\ year = RefYear /\ month = 1 /\ day = 1 /\ hour = 0 /\ minute = 0
  /\ gender = "m" /\ stemIdx = 0 /\ dayCount = 0
  /\ op = "input" /\ result = NoResult /\ jieqiCache = EmptyCache
  /\ form = NoForm

CheckRelationship ==
  /\ op = "input"
  /\ op' = "checkRelationship"
  /\ result' = checkRelationship(pair[1], pair[2])
  /\ UNCHANGED <<inputs, jieqiCache>>

NextRelation == CheckRelationship

SpecRelation == InitRelation /\ [][NextRelation]_vars

\* ---- calcFlyingStars for every year ------------------------------------
InitStars ==
  /\ year \in MinYear..MaxYear
  /\ month = 1 /\ day = 1 /\ hour = 0 /\ minute = 0 /\ gender = "m"
  /\ stemIdx = 0 /\ dayCount = 0
  /\ op = "input" /\ result = NoResult /\ jieqiCache = EmptyCache
  /\ pair = NoPair /\ form = NoForm

CalcFlyingStars ==
  /\ op = "input"
  /\ op' = "calcFlyingStars"
  /\ result' = calcFlyingStars(year)
  /\ UNCHANGED <<inputs, jieqiCache>>

NextStars == CalcFlyingStars

SpecStars == InitStars /\ [][NextStars]_vars

\* ---- lunarToSolar for every lunar date ---------------------------------
InitLunar ==
  /\ year \in MinYear..MaxYear
  /\ month \in 1..12
  /\ day \in 1..30
  /\ hour = 0 /\ minute = 0 /\ gender = "m" /\ stemIdx = 0 /\ dayCount = 0
  /\ op = "input" /\ result = NoResult /\ jieqiCache = EmptyCache
  /\ pair = NoPair /\ form = NoForm

LunarToSolar ==
  /\ op = "input"
  /\ op' = "lunarToSolar"
  /\ result' = lunarToSolar(year, month, day)
  /\ UNCHANGED <<inputs, jieqiCache>>

NextLunar == LunarToSolar

SpecLunar == InitLunar /\ [][NextLunar]_vars

\* ---- calcBazi on the birth form -----------------------------------------
\* how far the month and the day entered may lie outside 1..12 and 1..31
Beyond == 1

\* the texts of the year field: empty, letters, zero, and the years at and
\* next to the ends of the supported range and of the lunar table
YearTexts ==
  {<<>>, <<"a", "b", "c">>}
    \cup {textOf(n) : n \in {0, MinYear - 1, MinYear, RefYear,
                             LastLunarYear + 1, MaxYear, MaxYear + 1}}

InitBazi ==
  /\ form \in [calendarType : {"solar", "lunar"},
               birthYear : YearTexts,
               birthMonth : {textOf(n) : n \in (1 - Beyond)..(12 + Beyond)},
               birthDay : {textOf(n) : n \in (1 - Beyond)..(31 + Beyond)},
               birthHour : {textOf(n) : n \in {0, 11}},
               gender : {"m", "f"}]
  /\ year = MinYear /\ month = 1 /\ day = 1
  /\ hour = 0 /\ minute = 0 /\ gender = "m" /\ stemIdx = 0 /\ dayCount = 0
  /\ op = "input" /\ result = NoResult /\ jieqiCache = EmptyCache
  /\ pair = NoPair

\* alert('请输入有效年份（1900-2100）'); return;
AlertYear ==
  /\ op = "input"
  /\ yearRejected(parseInt(form.birthYear))
  /\ op' = "alert"
  /\ UNCHANGED <<inputs, result, jieqiCache>>

CalcBazi ==
  /\ op = "input"
  /\ ~yearRejected(parseInt(form.birthYear))
  /\ op' = "calcBazi"
  /\ result' = calcBazi(form)
  /\ UNCHANGED <<inputs, jieqiCache>>

CalcBaziV2 ==
  /\ op = "input"
  /\ ~yearRejected(parseInt(form.birthYear))
  /\ op' = "calcBaziV2"
  /\ result' = calcBaziV2(form)
  /\ UNCHANGED <<inputs, jieqiCache>>

NextBazi == AlertYear \/ CalcBazi \/ CalcBaziV2

SpecBazi == InitBazi /\ [][NextBazi]_vars

\* ---- calcSolarTerm for every tabulated year and term -------------------
TermIndexes == {2 * k : k \in 0..11} \cup {NotATermIndex}

InitSolver ==
  /\ pair \in ((MinYear - 1)..(MaxYear + 1)) \X TermIndexes
  /\ year = MinYear /\ month = 1 /\ day = 1
  /\ hour = 0 /\ minute = 0 /\ gender = "m" /\ stemIdx = 0 /\ dayCount = 0
  /\ op = "input" /\ result = NoResult /\ jieqiCache = EmptyCache
  /\ form = NoForm

CalcSolarTerm ==
  /\ op = "input"
  /\ op' = "calcSolarTerm"
  /\ result' = calcSolarTermRun(pair[1], pair[2])
  /\ UNCHANGED <<inputs, jieqiCache>>

NextSolver == CalcSolarTerm

SpecSolver == InitSolver /\ [][NextSolver]_vars

\* ---- sequences of getJieqi calls ---------------------------------------
\* getJieqi is called for the years RefYear .. RefYear + JieqiSpan, in any
\* order and any number of times
JieqiSpan == 5

JieqiYears == RefYear..(RefYear + JieqiSpan)

InitJieqi ==
  /\ year = RefYear /\ month = 1 /\ day = 1
  /\ hour = 0 /\ minute = 0 /\ gender = "m" /\ stemIdx = 0 /\ dayCount = 0
  /\ op = "input" /\ result = NoResult /\ jieqiCache = EmptyCache
  /\ pair = NoPair /\ form = NoForm

\* getJieqi(y): op tells which return statement was taken
GetJieqi ==
  \E y \in JieqiYears :
    /\ year' = y
    /\ op' = IF y \in DOMAIN jieqiCache THEN "getJieqiCached"
                                        ELSE "getJieqiComputed"
    /\ result' = getJieqi(jieqiCache, y).terms
    /\ jieqiCache' = getJieqi(jieqiCache, y).cache
    /\ UNCHANGED <<month, day, hour, minute, gender, stemIdx, dayCount,
                   pair, form>>

NextJieqi == GetJieqi

SpecJieqi == InitJieqi /\ [][NextJieqi]_vars

\* ---- getMonthFromSolarTerm for every date of some years ----------------
MonthYears == {MinYear, RefYear, MaxYear}

InitMonth ==
  /\ \E t \in ValidDates(MonthYears) :
       year = t[1] /\ month = t[2] /\ day = t[3]
  /\ hour = 0 /\ minute = 0 /\ gender = "m" /\ stemIdx = 0 /\ dayCount = 0
  /\ op = "input" /\ result = NoResult /\ jieqiCache = EmptyCache
  /\ pair = NoPair /\ form = NoForm

GetMonthFromSolarTerm ==
  /\ op = "input"
  /\ op' = "getMonthFromSolarTerm"
  /\ result' = getMonthFromSolarTerm(year, month, day, hour, minute)
  /\ UNCHANGED <<inputs, jieqiCache>>

GetMonthFromSolarTermV2 ==
  /\ op = "input"
  /\ op' = "getMonthFromSolarTermV2"
  /\ result' = getMonthFromSolarTermV2(year, month, day, hour, minute)
  /\ UNCHANGED <<inputs, jieqiCache>>

NextMonth == GetMonthFromSolarTerm \/ GetMonthFromSolarTermV2

SpecMonth == InitMonth /\ [][NextMonth]_vars

\* ---- getKongWang for every stem and branch ------------------------------
InitKongWang ==
  /\ pair \in (0..9) \X (0..11)
  /\ year = MinYear /\ month = 1 /\ day = 1
  /\ hour = 0 /\ minute = 0 /\ gender = "m" /\ stemIdx = 0 /\ dayCount = 0
  /\ op = "input" /\ result = NoResult /\ jieqiCache = EmptyCache
  /\ form = NoForm

GetKongWang ==
  /\ op = "input"
  /\ op' = "getKongWang"
  /\ result' = getKongWang(pair[1], pair[2])
  /\ UNCHANGED <<inputs, jieqiCache>>

NextKongWang == GetKongWang

SpecKongWang == InitKongWang /\ [][NextKongWang]_vars

\* ---- getChangseng for every stem and branch -----------------------------
InitChangseng ==
  /\ pair \in (0..NotAStem) \X (0..NotABranch)
  /\ year = MinYear /\ month = 1 /\ day = 1
  /\ hour = 0 /\ minute = 0 /\ gender = "m" /\ stemIdx = 0 /\ dayCount = 0
  /\ op = "input" /\ result = NoResult /\ jieqiCache = EmptyCache
  /\ form = NoForm

GetChangseng ==
  /\ op = "input"
  /\ op' = "getChangseng"
  /\ result' = getChangseng(pair[1], pair[2])
  /\ UNCHANGED <<inputs, jieqiCache>>

NextChangseng == GetChangseng

SpecChangseng == InitChangseng /\ [][NextChangseng]_vars

\* ---- calcMingGua for every birth year and gender -----------------------
InitMingGua ==
  /\ year \in MinYear..MaxYear
  /\ gender \in {"m", "f"}
  /\ month = 1 /\ day = 1 /\ hour = 0 /\ minute = 0
  /\ stemIdx = 0 /\ dayCount = 0
  /\ op = "input" /\ result = NoResult /\ jieqiCache = EmptyCache
  /\ pair = NoPair /\ form = NoForm

CalcMingGua ==
  /\ op = "input"
  /\ op' = "calcMingGua"
  /\ result' = calcMingGua(year, gender)
  /\ UNCHANGED <<inputs, jieqiCache>>

NextMingGua == CalcMingGua

SpecMingGua == InitMingGua /\ [][NextMingGua]_vars

\* ---- renderFlyingStars for every year -----------------------------------
InitGrid ==
  /\ year \in MinYear..MaxYear
  /\ month = 1 /\ day = 1 /\ hour = 0 /\ minute = 0 /\ gender = "m"
  /\ stemIdx = 0 /\ dayCount = 0
  /\ op = "input" /\ result = NoResult /\ jieqiCache = EmptyCache
  /\ pair = NoPair /\ form = NoForm

RenderFlyingStars ==
  /\ op = "input"
  /\ op' = "renderFlyingStars"
  /\ result' = [stars |-> calcFlyingStars(year),
                grid |-> renderFlyingStars(year)]
  /\ UNCHANGED <<inputs, jieqiCache>>

NextGrid == RenderFlyingStars

SpecGrid == InitGrid /\ [][NextGrid]_vars

\* ---- calcZiweiChart for every date of some years -----------------------
InitZiwei ==
  /\ \E t \in ValidDates(MonthYears) :
       year = t[1] /\ month = t[2] /\ day = t[3]
  /\ hour \in 0..11
  /\ gender \in {"m", "f"}
  /\ minute = 0 /\ stemIdx = 0 /\ dayCount = 0
  /\ op = "input" /\ result = NoResult /\ jieqiCache = EmptyCache
  /\ pair = NoPair /\ form = NoForm

CalcZiweiChart ==
  /\ op = "input"
  /\ op' = "calcZiweiChart"
  /\ result' = calcZiweiChart(year, month, day, hour, gender)
  /\ UNCHANGED <<inputs, jieqiCache>>

NextZiwei == CalcZiweiChart

SpecZiwei == InitZiwei /\ [][NextZiwei]_vars

\* =====================================================================
\* Claims
\* =====================================================================

\* (year, month, day, hour, minute) of a before that of b
stampBefore(a, b) ==
  \/ a.year < b.year
  \/ (a.year = b.year /\ a.month < b.month)
  \/ (a.year = b.year /\ a.month = b.month /\ a.day < b.day)
  \/ (a.year = b.year /\ a.month = b.month /\ a.day = b.day /\ a.hour < b.hour)
  \/ (a.year = b.year /\ a.month = b.month /\ a.day = b.day /\ a.hour = b.hour
        /\ a.minute < b.minute)

\* C1: for every year in [1900, 2100] getSolarTerms(year) returns 24 terms,
\* xiaohan, dahan, lichun, ..., dongzhi, whose (year, month, day, hour,
\* minute) timestamps are strictly increasing in that order.
C1_TermsIncreasing ==
  op = "getSolarTerms" =>
    /\ Cardinality(DOMAIN result) = 24
    /\ \A i \in 0..22 :
         stampBefore(result[termNames[i]], result[termNames[i + 1]])

\* C2: whenever the day-overflow carry of getSolarTerms(year) moves a term
\* past December, the returned term has a month in 1..12 and
\* year = year + 1; a term that stays inside the year carries year = year.
C2_CarryAdvancesYear ==
  op = "getSolarTerms" =>
    \A i \in 0..23 :
      LET t == result[termNames[i]]
      IN  IF carryOf(year, i).wrapped
          THEN t.month \in 1..12 /\ t.year = year + 1
          ELSE t.year = year

\* ---- the four pillars -------------------------------------------------

isChartOp == op \in {"calcBaziPillars", "calcBaziPillarsV2"}

\* C3: for every input (year in 1900..2100, valid month and day, hour slot
\* 0..11, gender) each of the four pillars returned by calcBaziPillars (all
\* three definitions) has a stem index and a branch index of the same parity.
C3_PillarParity ==
  /\ isChartOp =>
       \A i \in 0..3 : result.pillars[i].stem % 2 = result.pillars[i].branch % 2
  /\ op = "calcBaziPillarsJieqi" =>
       \A i \in 0..3 : result[i].stemIdx % 2 = result[i].branchIdx % 2

\* a chart of js/bazi.js whose month and hour pillars are odd pairs
C3_Witness ==
  /\ op = "calcBaziPillars"
  /\ result.pillars[1].stem % 2 = 1 /\ result.pillars[1].branch % 2 = 1
  /\ result.pillars[3].stem % 2 = 1 /\ result.pillars[3].branch % 2 = 1

\* the pair (N mod 10, N mod 12) for the date N days from 2000-01-07
pairOfDay(n) == [stemIdx |-> n % 10, branchIdx |-> n % 12]

\* C4: in js/bazi.js calcBaziPillars gives 2000-01-07 the day pillar (0, 0)
\* and a date N days away from it the pair (N mod 10, N mod 12).
C4_DayPillarFromReference ==
  op = "dayPillar" => result.pillar = pairOfDay(dayCount)

\* C5: for every date in 1900..2100 getDayStemBranch returns
\* (N mod 10, N mod 12), N the days from 2000-01-07 to the date (negative
\* before it), so that consecutive days advance both indices by one; and the
\* day pillar of calcBaziPillars in the same file is the same pair.
C5_DayStemBranch ==
  op = "dayPillar" =>
    /\ result.stemBranch = pairOfDay(dayCount)
    /\ result.pillarV2 = result.stemBranch

\* the last day of 1999, seven days before the reference day
C5_Witness ==
  /\ op = "dayPillar"
  /\ year = 1999 /\ month = 12 /\ day = 31 /\ dayCount = 0 - 7
  /\ result.stemBranch = [stemIdx |-> 3, branchIdx |-> 5]
  /\ result.pillarV2 = [stemIdx |-> 3, branchIdx |-> 5]

\* the instant of a term in minutes
termMinutes(t) == DateMinutes(t.year, t.month, t.day, t.hour, t.minute)

\* the sectional terms around a birth in year y, those of getJieqi(y - 1) and
\* getJieqi(y), each with its instant and the branch of the month it opens
sectionalTerms(y) ==
  {[at |-> termMinutes(computeJieqi(yy)[i]), branch |-> JIEQI_BRANCH[i]] :
     yy \in {y - 1, y}, i \in 0..11}

\* the branch of the latest sectional term at or before the birth instant,
\* the birth date at HOUR_START[slot]
latestTermBranch ==
  Only({ (CHOOSE s \in passed : \A r \in passed : r.at <= s.at).branch :
           passed \in {{s \in sectionalTerms(year) :
                          s.at <= DateMinutes(year, month, day,
                                              HOUR_START[hour], 0)}} })

\* C6: for every birth (year, month, day, hour slot) getMonthBranchIdx
\* returns the branch of the latest of the sectional terms whose instant is
\* at or before the birth instant (the birth date at HOUR_START[slot]),
\* full dates compared including the term's year.
C6_MonthBranchLatestTerm ==
  op = "calcBaziPillarsJieqi" => result[1].branchIdx = latestTermBranch

\* (B[s mod 5] + k) mod 10, k the offset of the month branch from yin (2)
fiveTigerStem(s, monthBranch) ==
  (fiveTigerBases[s % 5] + ((monthBranch - 2 + 12) % 12)) % 10

\* C7: in the chart returned by calcBaziPillars the month stem index is
\* (B[s mod 5] + k) mod 10, s the stem index of the chart's own year pillar,
\* B = [2, 4, 6, 8, 0], k the offset of the chart's month branch from yin.
C7_MonthStemFiveTiger ==
  /\ op = "calcBaziPillars" =>
       result.pillars[1].stem
         = fiveTigerStem(result.pillars[0].stem, result.pillars[1].branch)
  /\ op = "calcBaziPillarsJieqi" =>
       result[1].stemIdx = fiveTigerStem(result[0].stemIdx, result[1].branchIdx)

\* ---- luck direction and onset age -------------------------------------

\* the parity rule: forward for an even stem and 'm', or an odd stem and 'f'
parityRuleForward(stem, g) ==
  (stem % 2 = 0 /\ g = "m") \/ (stem % 2 = 1 /\ g = "f")

\* C8: for each of the 20 combinations of year stem index and gender the
\* direction reported by calcDaYunPrecise is forward (shunxing) exactly when
\* the parity rule says so and backward (nixing) otherwise, and the
\* daYunForward flag of calcBaziPillars follows the rule for the stem of the
\* chart's own year pillar.
C8_DirectionParity ==
  /\ op = "calcDaYunPrecise" =>
       /\ result.direction \in {"shunxing", "nixing"}
       /\ (result.direction = "shunxing") <=> parityRuleForward(stemIdx, gender)
  /\ isChartOp =>
       (result.info.daYunForward
          <=> parityRuleForward(result.pillars[0].stem, gender))

\* a backward direction for an even stem and a forward one for an odd stem,
\* and a chart whose luck runs backward
C8_Witness ==
  \/ op = "calcDaYunPrecise" /\ stemIdx = 6 /\ gender = "f"
       /\ result.direction = "nixing"
  \/ op = "calcDaYunPrecise" /\ stemIdx = 3 /\ gender = "f"
       /\ result.direction = "shunxing"
  \/ op = "calcBaziPillars" /\ ~result.info.daYunForward

\* C9: for every birth date and either gender the onset age returned by
\* calcDaYunPrecise is an integer in [1, 20].
C9_StartAgeRange ==
  /\ op = "calcDaYunPrecise" => result.startAge \in 1..20
  /\ isChartOp => result.info.startAge \in 1..20

\* the span to the term in the luck direction, divided by 3, is above 20
\* (the upper clamp acts) and the onset age returned is 20
C9_Witness ==
  /\ op = "calcDaYunPrecise"
  /\ result.direction = "nixing"
  /\ result.daysFromPrev > 63
  /\ result.startAge = 20

\* the span D of the claim in minutes: from the birth instant to the next
\* term when forward, from the previous term to the birth instant otherwise
claimedSpan ==
  LET near == getNearestSolarTerm(year, month, day)
      birth == DateMinutes(year, month, day, hour, minute)
      t == IF result.direction = "shunxing" THEN near.nextDate ELSE near.prevDate
      instant == DateMinutes(t.year, t.month, t.day, t.hour, t.minute)
  IN  IF result.direction = "shunxing" THEN instant - birth ELSE birth - instant

\* C10: the onset age returned by calcDaYunPrecise equals
\* min(20, max(1, floor(D / 3))), D the days (with fraction) from the birth
\* instant to the next solar term when forward, or from the previous solar
\* term to the birth instant when backward.
C10_StartAgeFloor ==
  op = "calcDaYunPrecise" =>
    result.startAge = Min2(20, Max2(1, claimedSpan \div 4320))

\* ---- luck pillars ------------------------------------------------------

\* C11: the chart returned by calcBaziPillars has exactly 8 luck pillars and,
\* for i = 1..8, the i-th has stem (ms + d*i) mod 10 and branch
\* (mb + d*i) mod 12, ms and mb the indices of the stem and branch shown in
\* the chart's month pillar, d = +1 when forward and -1 when backward.
C11_LuckPillarsStep ==
  isChartOp =>
    /\ DOMAIN result.daYun = 0..7
    /\ \A i \in 1..8 :
         LET d == IF result.info.daYunForward THEN 1 ELSE 0 - 1
         IN  /\ result.daYun[i - 1].stem
                  = (result.pillars[1].stem + d * i) % 10
             /\ result.daYun[i - 1].branch
                  = (result.pillars[1].branch + d * i) % 12

\* ---- ten gods ----------------------------------------------------------

TenGods == {"bijian", "jiecai", "shishen", "shangguan", "piancai",
            "zhengcai", "qisha", "zhengguan", "pianyin", "zhengyin"}

\* C12: for every day stem d the row SHISHEN_MAP[d] maps the 10 stems to 10
\* pairwise distinct categories: the category found for a stem is one of the
\* ten and is found for no other stem of the row.
C12_RowsDistinct ==
  (op = "getTenGod" /\ pair[1] \in 0..9 /\ pair[2] \in 0..9) =>
    /\ result \in TenGods
    /\ \A s \in 0..9 : s # pair[2] => getTenGod(pair[1], s) # result
    /\ {getTenGod(pair[1], s) : s \in 0..9} = TenGods

\* the last stem of the last row looked up
C12_Witness ==
  op = "getTenGod" /\ pair = <<9, 9>> /\ result = "bijian"

\* the generating and the overcoming cycle of the five elements
produces ==
  [wood |-> "fire", fire |-> "earth", earth |-> "metal", metal |-> "water",
   water |-> "wood"]

overcomes ==
  [wood |-> "earth", earth |-> "water", water |-> "fire", fire |-> "metal",
   metal |-> "wood"]

\* the category derived from the elements and polarities of two stems
derivedTenGod(d, s) ==
  LET de == STEM_ELEMENTS[d]
      se == STEM_ELEMENTS[s]
      same == STEM_YIN_YANG[d] = STEM_YIN_YANG[s]
  IN  IF de = se THEN (IF same THEN "bijian" ELSE "jiecai")
      ELSE IF produces[de] = se THEN (IF same THEN "shishen" ELSE "shangguan")
      ELSE IF overcomes[de] = se THEN (IF same THEN "piancai" ELSE "zhengcai")
      ELSE IF overcomes[se] = de THEN (IF same THEN "qisha" ELSE "zhengguan")
      ELSE (IF same THEN "pianyin" ELSE "zhengyin")

\* C13: for every pair (day stem d, other stem s) getTenGod(d, s) is the
\* category derived from STEM_ELEMENTS and STEM_YIN_YANG (same element:
\* bijian / jiecai; d produces s: shishen / shangguan; d overcomes s:
\* piancai / zhengcai; s overcomes d: qisha / zhengguan; s produces d:
\* pianyin / zhengyin; the first name for equal polarity).
C13_TenGodDerived ==
  (op = "getTenGod" /\ pair[1] \in 0..9 /\ pair[2] \in 0..9) =>
    result = derivedTenGod(pair[1], pair[2])

\* ---- relationships between branches -----------------------------------

\* C14: for all branches a and b among the 12,
\* checkRelationship(a, b) = checkRelationship(b, a).
C14_RelationSymmetric ==
  (op = "checkRelationship" /\ pair[1] \in 0..11 /\ pair[2] \in 0..11) =>
    result = checkRelationship(pair[2], pair[1])

\* a clash looked up from the later branch to the earlier one
C14_Witness ==
  op = "checkRelationship" /\ pair = <<8, 2>> /\ result = "chong"

\* the relationships whose table matches the pair (a, b)
matchingRelations(a, b) ==
  {r \in {"he", "chong", "xing", "hai", "po"} :
     \/ r = "he" /\ he[a] = b
     \/ r = "chong" /\ (a - b = 6 \/ b - a = 6)
     \/ r = "xing" /\ b \in xing[a] /\ a # b
     \/ r = "hai" /\ hai[a] = b
     \/ r = "po" /\ po[a] = b}

\* C15: for every pair of branches checkRelationship reports every
\* relationship among he, chong, xing, hai and po whose table matches the
\* pair: a pair matching several tables yields all of them.
C15_AllRelationsReported ==
  (op = "checkRelationship" /\ pair[1] \in 0..11 /\ pair[2] \in 0..11) =>
    (IF result = "" THEN {} ELSE {result})
      = matchingRelations(pair[1], pair[2])

\* ---- flying stars ------------------------------------------------------

\* the 20-year period of a year, counted from the period 1984..2003
periodOf(y) == (y - 1984) \div 20

\* C16: for every year in [1900, 2100] the centre star of
\* calcFlyingStars(year) follows a 20-year epoch table: 7 for 1984..2003,
\* 8 for 2004..2023, 9 for 2024..2043, the same within every 20-year period
\* and different between adjacent periods.
C16_CenterStarEpochs ==
  op = "calcFlyingStars" =>
    /\ (year \in 1984..2003 => result[0].star = 7)
    /\ (year \in 2004..2023 => result[0].star = 8)
    /\ (year \in 2024..2043 => result[0].star = 9)
    /\ \A y \in MinYear..MaxYear :
         /\ periodOf(y) = periodOf(year)
              => calcFlyingStars(y)[0].star = result[0].star
         /\ periodOf(y) = periodOf(year) + 1
              => calcFlyingStars(y)[0].star # result[0].star

\* ---- lunar dates -------------------------------------------------------

\* C19: for every lunar year in [1900, 2100] lunarToSolar computes its result
\* from that year's own entry of the new-year table; a year without an entry
\* fails and is never given a default anchor: a date is returned only for a
\* year that has an entry.
C19_OwnAnchorOnly ==
  op = "lunarToSolar" =>
    /\ hasLunarNewYear(year)
    /\ result = carrySolarDays(year, lunarAnchor(year)[1],
                               lunarAnchor(year)[2]
                                 + lunarMonthOffset(year, month) + day - 1)

\* the days from 1 January of lunar year y to the solar date r
dayOfYear(y, r) ==
  (DateMinutes(r.year, r.month, r.day, 0, 0) - DateMinutes(y, 1, 1, 0, 0))
    \div 1440

\* C20: for a lunar year that LUNAR_INFO marks with a leap month L,
\* lunarToSolar maps a date in a month after L to a solar date that includes
\* the inserted month: it is later, by the leap month's length (29 or 30
\* days), than the result for the same month and day in a year without a
\* leap month and with the same new-year anchor.
C20_LeapMonthCounted ==
  (/\ op = "lunarToSolar"
   /\ hasLunarNewYear(year)
   /\ leapMonthOf(year) > 0
   /\ month > leapMonthOf(year)) =>
    \A y \in MinYear..LastLunarYear :
      (leapMonthOf(y) = 0 /\ lunarAnchor(y) = lunarAnchor(year)) =>
        dayOfYear(year, result) - dayOfYear(y, lunarToSolar(y, month, day))
          \in 29..30

\* ---- calcBazi ------------------------------------------------------------

\* a chart has been computed and rendered
isBaziOp == op \in {"calcBazi", "calcBaziV2"}

\* the year field holds digits only that spell a year of [1900, 2100]
yearTextValid ==
  /\ form.birthYear # <<>>
  /\ \A i \in 1..Len(form.birthYear) : isDigit(form.birthYear[i])
  /\ parseDigits(form.birthYear, 1, 0) \in MinYear..MaxYear

\* C17: calcBazi invokes calcBaziPillars and renders a chart only with a
\* solar year in [1900, 2100], for solar and for lunar input alike; a
\* missing, non-numeric or out-of-range year is rejected with a message and
\* nothing is computed or rendered.
C17_SolarYearInRange ==
  /\ isBaziOp => result.called.year \in MinYear..MaxYear
  /\ (op # "input" /\ ~yearTextValid) => (op = "alert" /\ result = NoResult)

\* the month, day and hour entered name an existing date and hour slot
\* (a lunar month has the length getMonthDays gives it)
dateTextsValid ==
  LET y == parseInt(form.birthYear).n
      m == parseInt(form.birthMonth).n
      d == parseInt(form.birthDay).n
      h == parseInt(form.birthHour).n
  IN  /\ m \in 1..12
      /\ d \in 1..31
      /\ IF form.calendarType = "lunar" /\ op = "calcBaziV2"
         THEN d <= getMonthDays(y, m)
         ELSE d <= monthDays(y)[m - 1]
      /\ h \in 0..11

\* C18: calcBazi rejects, before any pillar is computed and without
\* rendering a chart, every input whose month is outside 1..12, whose day is
\* outside 1..31 or does not exist in that month (including lunar day 30 in
\* a 29-day lunar month), or whose hour slot is outside 0..11: a chart is
\* rendered for valid month, day and hour only.
C18_DateValidated == isBaziOp => dateTextsValid

\* ---- the solver of calcSolarTerm ----------------------------------------

freshTerms(y) ==
  [i \in 0..11 |->
     IF i = 11 THEN calcSolarTerm(y + 1, 0) ELSE calcSolarTerm(y, 2 * i + 2)]

\* C22: after any sequence of getJieqi calls, every year present in
\* _jieqiCache maps to exactly the 12-term list a fresh computation for it
\* produces, an entry is never changed once written, and a repeated
\* getJieqi(y) returns the same terms as the first call (the fresh list).
C22_CacheHoldsFreshTerms ==
  /\ [](/\ \A y \in DOMAIN jieqiCache : jieqiCache[y] = freshTerms(y)
        /\ op \in {"getJieqiCached", "getJieqiComputed"} =>
             (year \in DOMAIN jieqiCache /\ result = freshTerms(year)))
  /\ [][\A y \in DOMAIN jieqiCache :
          y \in DOMAIN jieqiCache' /\ jieqiCache'[y] = jieqiCache[y]]_vars

\* a repeated call has returned from a cache that holds several years
C22_Witness ==
  /\ op = "getJieqiCached"
  /\ Cardinality(DOMAIN jieqiCache) >= 3

\* ---- the month index of a term -----------------------------------------

\* C23: for each of the 24 solar-term names taken as the most recently
\* passed term (prevTerm), getMonthFromSolarTerm selects the month index that
\* TERM_MONTH_INDEX assigns to that term; the index shows in monthBranchIdx,
\* which is (monthIndex + 2) % 12 in js/bazi.js and monthIndex in the later
\* revision.
C23_MonthIndexOfTerm ==
  /\ (op = "getMonthFromSolarTerm" /\ result.termName \in TermNameSet) =>
       result.monthBranchIdx = (TERM_MONTH_INDEX[result.termName] + 2) % 12
  /\ (op = "getMonthFromSolarTermV2" /\ result.termName \in TermNameSet) =>
       result.monthBranchIdx = TERM_MONTH_INDEX[result.termName]

\* ---- the elements of the chart -----------------------------------------

\* the number of the eight displayed characters whose element is e
shownElemCount(pillars, e) ==
  Cardinality({i \in 0..3 : STEM_ELEMENTS[pillars[i].stem] = e})
    + Cardinality({i \in 0..3 : BRANCH_ELEMENTS[pillars[i].branch] = e})

\* C24: in the chart returned by calcBaziPillars, every pillar's stemEle is
\* STEM_ELEMENTS at the index of its stem character and its branchEle is
\* BRANCH_ELEMENTS at the index of its branch character, so elemCount counts
\* the elements of the eight displayed characters and its five values sum
\* to 8.
C24_ElementsOfShownCharacters ==
  isChartOp =>
    /\ \A i \in 0..3 :
         /\ result.pillars[i].stemEle = STEM_ELEMENTS[result.pillars[i].stem]
         /\ result.pillars[i].branchEle
              = BRANCH_ELEMENTS[result.pillars[i].branch]
    /\ \A e \in Elements :
         result.elemCount[e] = shownElemCount(result.pillars, e)
    /\ result.elemCount["wood"] + result.elemCount["fire"]
         + result.elemCount["earth"] + result.elemCount["metal"]
         + result.elemCount["water"] = 8

\* ---- void branches --------------------------------------------------------

\* C25: for each of the 60 valid stem-branch pairs (stem index s, branch
\* index b), getKongWang returns the two void branches of the ten-day decade
\* containing the pair, BRANCHES[(b - s + 10) mod 12] and
\* BRANCHES[(b - s + 11) mod 12], and never the placeholder.
C25_VoidBranchesOfDecade ==
  (op = "getKongWang" /\ (pair[1] - pair[2]) % 2 = 0) =>
    /\ result = <<(pair[2] - pair[1] + 10) % 12, (pair[2] - pair[1] + 11) % 12>>
    /\ result # KongWangPlaceholder

\* ---- the twelve stages ---------------------------------------------------

\* the birth branch the comment documents for each stem:
\* 甲-亥, 乙-午, 丙-寅, 丁-酉, 戊-寅, 己-酉, 庚-巳, 辛-子, 壬-申, 癸-卯
documentedBirthBranch == Arr(<<11, 6, 2, 9, 2, 9, 5, 0, 8, 3>>)

\* C26: for every stem and branch, getChangseng(stem, branch) returns 长生
\* exactly when the branch is the birth branch its comment documents for
\* that stem.
C26_BirthBranchAsDocumented ==
  (op = "getChangseng" /\ pair[1] \in 0..9 /\ pair[2] \in 0..11) =>
    ((result = "changsheng") <=> (pair[2] = documentedBirthBranch[pair[1]]))

\* ---- the life trigram ----------------------------------------------------

\* C27: for every birth year and gender, calcMingGua never reports gua
\* number 5: when the formula yields 5 (or 0) a male is assigned the Kun
\* trigram (number 2) and a female the Gen trigram (number 8).
C27_NoFifthGua ==
  op = "calcMingGua" =>
    /\ result.guaNum # 5
    /\ (LET lastDigit == year % 10
            n == IF gender = "m" THEN (100 - lastDigit) % 9
                                 ELSE (lastDigit + 5) % 9
        IN  n \in {0, 5} =>
              IF gender = "m"
              THEN result.guaNum = 2 /\ result.name = "kun"
              ELSE result.guaNum = 8 /\ result.name = "gen")

\* ---- the grid of flying stars ---------------------------------------------

\* C28: for every year, calcFlyingStars returns nine palaces that occupy
\* nine distinct cells of a 3x3 grid (row and col each in 0..2), so the grid
\* built by renderFlyingStars shows each star 1..9 exactly once and leaves no
\* cell empty.
C28_NinePalacesFillGrid ==
  op = "renderFlyingStars" =>
    /\ \A i \in 0..8 :
         result.stars[i].row \in 0..2 /\ result.stars[i].col \in 0..2
    /\ \A i, j \in 0..8 :
         i # j => <<result.stars[i].row, result.stars[i].col>>
                    # <<result.stars[j].row, result.stars[j].col>>
    /\ \A c \in (0..2) \X (0..2) : result.grid[c] # NoCell
    /\ \A s \in 1..9 :
         Cardinality({c \in (0..2) \X (0..2) : result.grid[c] = s}) = 1

\* ---- the star map ---------------------------------------------------------

\* the number of places the map holds a star at
placesOf(map, star) ==
  Cardinality({p \in (DOMAIN map) \X (1..14) :
                 p[2] <= Len(map[p[1]]) /\ map[p[1]][p[2]] = star})

\* C29: for every birth date, the star map built by calcZiweiChart /
\* distributeStars places each of the 14 main stars exactly once, and every
\* key of the map is a palace index in 0..11.
C29_StarsInPalaces ==
  op = "calcZiweiChart" =>
    /\ \A i \in 1..14 : placesOf(result.starPalaceMap, ZIWEI_STARS[i]) = 1
    /\ DOMAIN result.starPalaceMap \subseteq 0..11

\* ---- derived cycles -------------------------------------------------------

\* C30: every stem-branch pair generated as a derived cycle, each of the 8
\* luck pillars in calcBaziPillars and each of the 8 entries of calcXiaoyun,
\* is a valid sexagenary pair: its stem index and branch index have the same
\* parity, for every birth input.
C30_DerivedPairsParity ==
  /\ isChartOp =>
       \A i \in 0..7 :
         (result.daYun[i].stem - result.daYun[i].branch) % 2 = 0
  /\ op = "calcXiaoyun" =>
       \A i \in 0..7 : (result[i].stemIdx - result[i].branchIdx) % 2 = 0

====
